---- MODULE Spec2Model ----
(***************************************************************************)
(* Model of the detection orchestration layer of the fridge scanner        *)
(* backend: backend/app/services/detection_service.py (DetectionService).  *)
(*                                                                         *)
(* Python values are modelled as follows.                                  *)
(*   str            a TLA+ string (Len, SubSeq and \o act on characters)   *)
(*   None           the sentinel None                                      *)
(*   Dict[int,str]  a function whose domain is the set of keys             *)
(*   list           a sequence                                             *)
(*   float          confidences are integers (percent), bboxes are tuples  *)
(*   exception      a record [kind, msg]; str(exc) is its msg              *)
(***************************************************************************)
EXTENDS Integers, Sequences, FiniteSets, TLC

VARIABLES
    primary_model,          \* self._primary_model: None or the bound adapter
    secondary_model,        \* self._secondary_model
    primary_class_names,    \* self._primary_class_names
    secondary_class_names,  \* self._secondary_class_names
    primary_model_error,    \* self._primary_model_error: None or a message
    secondary_model_error,  \* self._secondary_model_error
    use_ensemble,           \* self._use_ensemble
    db,                     \* the MongoDB collections the endpoints write
    call                    \* the last operation: its inputs, the adapters it
                            \* invoked in order, and how it ended

vars == <<primary_model, secondary_model, primary_class_names,
          secondary_class_names, primary_model_error, secondary_model_error,
          use_ensemble, db, call>>

service_vars == <<primary_model, secondary_model, primary_class_names,
                  secondary_class_names, primary_model_error,
                  secondary_model_error, use_ensemble>>

-----------------------------------------------------------------------------
(* Bounds of the model.                                                    *)

\* longest result an adapter returns for one image in Spec
MaxDet == 1
\* longest per-model detection list handed to the ensemble merge in SpecMerge
MaxMergeLen == 2
\* longest detection list handed to _group_and_count_detections in SpecGroup
MaxGroupLen == 3

\* class indices a detector emits
ClassIndices == {0, 1}
\* confidences a detector emits, in percent
Confidences == {80, 95}
\* bounding boxes a detector emits
BBoxes == {<<0, 0, 10, 10>>}
\* bounding boxes a detector emits in SpecGroup
GroupBBoxes == {<<0, 0, 10, 10>>, <<5, 5, 20, 20>>}

-----------------------------------------------------------------------------
(* Python built-ins.                                                       *)

None == "<None>"

\* truthiness of an Optional[str]
Truthy(s) == s # None /\ s # ""

\* mutant: the second operand is preferred to the first
Or3_SecondFirst(a, b, c) == IF Truthy(b) THEN b ELSE IF Truthy(a) THEN a ELSE c

\* a or b or c
Or3(a, b, c) == IF Truthy(a) THEN a ELSE IF Truthy(b) THEN b ELSE c

UpperChars == "ABCDEFGHIJKLMNOPQRSTUVWXYZ"
LowerChars == "abcdefghijklmnopqrstuvwxyz"

LowerChar(c) ==
    IF \E i \in 1..Len(UpperChars) : SubSeq(UpperChars, i, i) = c
    THEN LET i == CHOOSE j \in 1..Len(UpperChars) : SubSeq(UpperChars, j, j) = c
         IN  SubSeq(LowerChars, i, i)
    ELSE c

\* str.lower()
RECURSIVE Lower(_)
Lower(s) ==
    IF Len(s) = 0 THEN ""
    ELSE LowerChar(SubSeq(s, 1, 1)) \o Lower(SubSeq(s, 2, Len(s)))

IsSpace(c) == c \in {" ", "\t", "\n", "\r"}

\* str.strip()
RECURSIVE Strip(_)
Strip(s) ==
    IF Len(s) = 0 THEN ""
    ELSE IF IsSpace(SubSeq(s, 1, 1)) THEN Strip(SubSeq(s, 2, Len(s)))
    ELSE IF IsSpace(SubSeq(s, Len(s), Len(s))) THEN Strip(SubSeq(s, 1, Len(s) - 1))
    ELSE s

\* sub in s
Contains(sub, s) ==
    \E i \in 1..(Len(s) - Len(sub) + 1) : SubSeq(s, i, i + Len(sub) - 1) = sub

\* any(v in s for v in vocab)
ContainsAny(vocab, s) == \E i \in 1..Len(vocab) : Contains(vocab[i], s)

\* s in vocab
InList(s, vocab) == \E i \in 1..Len(vocab) : vocab[i] = s

\* dict.get(key, default)
DictGet(d, key, default) == IF key \in DOMAIN d THEN d[key] ELSE default

-----------------------------------------------------------------------------
(* _category_from_label                                                    *)

fruits == <<"apple", "banana", "blue berry", "stawberry", "strawberry",
            "lemon", "orange">>
vegetables == <<"brinjal", "cabbage", "capsicum", "carrot", "corn", "cucumber",
                "ginger", "green beans", "green chilly", "green leaves",
                "lettuce", "mushroom", "potato", "sweet potato", "tomato",
                "spinach", "broccoli">>
dairy == <<"milk", "cheese", "butter", "fresh cream", "yogurt", "egg">>
meat == <<"chicken", "meat", "shrimp">>
grains == <<"bread", "flour">>
other == <<"chocolate">>

ExactCategory(lower_label) ==
    IF InList(lower_label, fruits) THEN "fruits"
    ELSE IF InList(lower_label, vegetables) THEN "vegetables"
    ELSE IF InList(lower_label, dairy) THEN "dairy"
    ELSE IF InList(lower_label, meat) THEN "meat"
    ELSE IF InList(lower_label, grains) THEN "grains"
    ELSE IF InList(lower_label, other) THEN "other"
    ELSE None

\* mutant: the partial matches try the sets from the last to the first, the
\* other set included
PartialCategory_Reversed(lower_label) ==
    IF ContainsAny(other, lower_label) THEN "other"
    ELSE IF ContainsAny(grains, lower_label) THEN "grains"
    ELSE IF ContainsAny(meat, lower_label) THEN "meat"
    ELSE IF ContainsAny(dairy, lower_label) THEN "dairy"
    ELSE IF ContainsAny(vegetables, lower_label) THEN "vegetables"
    ELSE IF ContainsAny(fruits, lower_label) THEN "fruits"
    ELSE None

PartialCategory(lower_label) ==
    IF ContainsAny(fruits, lower_label) THEN "fruits"
    ELSE IF ContainsAny(vegetables, lower_label) THEN "vegetables"
    ELSE IF ContainsAny(dairy, lower_label) THEN "dairy"
    ELSE IF ContainsAny(meat, lower_label) THEN "meat"
    ELSE IF ContainsAny(grains, lower_label) THEN "grains"
    ELSE None

FallbackCategory(lower_label) ==
    IF ContainsAny(<<"fruit", "berry">>, lower_label) THEN "fruits"
    ELSE IF ContainsAny(<<"veg", "leaf">>, lower_label) THEN "vegetables"
    ELSE IF ContainsAny(<<"milk", "cream", "cheese">>, lower_label) THEN "dairy"
    ELSE IF ContainsAny(<<"chicken", "meat", "fish", "shrimp">>, lower_label)
         THEN "meat"
    ELSE IF ContainsAny(<<"bread", "flour", "grain">>, lower_label) THEN "grains"
    ELSE "uncategorized"

\* mutant: the fallback patterns are consulted before the partial matches
category_from_label_FallbackFirst(label) ==
    LET lower_label == Strip(Lower(label)) IN
    IF ExactCategory(lower_label) # None THEN ExactCategory(lower_label)
    ELSE IF FallbackCategory(lower_label) # "uncategorized"
    THEN FallbackCategory(lower_label)
    ELSE IF PartialCategory(lower_label) # None THEN PartialCategory(lower_label)
    ELSE "uncategorized"

category_from_label(label) ==
    LET lower_label == Strip(Lower(label)) IN
    IF ExactCategory(lower_label) # None THEN ExactCategory(lower_label)
    ELSE IF PartialCategory(lower_label) # None THEN PartialCategory(lower_label)
    ELSE FallbackCategory(lower_label)

-----------------------------------------------------------------------------
(* The deployment the service is constructed in: settings, the installed   *)
(* packages and the files of computer_vision/models.                       *)

models_dir == "computer_vision/models"

PathOf(name) == models_dir \o "/" \o name

\* settings.CV_PRIMARY_MODEL
CV_PRIMARY_MODEL == "best.pt"

\* the names tried when no secondary model is configured
secondary_paths == <<"best2.pt", "alternative.pt", "backup.pt", "model2.pt">>

WeightFiles == {CV_PRIMARY_MODEL} \cup {secondary_paths[i] : i \in 1..Len(secondary_paths)}

\* a weights file is absent, present but rejected by YOLO(), or loadable
WeightStates == {"missing", "corrupt", "ok"}

\* what YOLO(path) raises on a file it cannot load
YoloLoadError == "invalid checkpoint"

\* a label file: absent, unparsable, or a document with a names entry that is
\* a dict (keys as written), a list, or something else
YamlMissing == [exists |-> FALSE, parses |-> FALSE, kind |-> "none", names |-> <<>>]
YamlCorrupt == [exists |-> TRUE, parses |-> FALSE, kind |-> "none", names |-> <<>>]
YamlList == [exists |-> TRUE, parses |-> TRUE, kind |-> "list",
             names |-> <<"Egg", "Sweet Potato">>]
YamlDict == [exists |-> TRUE, parses |-> TRUE, kind |-> "dict",
             names |-> (0 :> "egg" @@ 1 :> "Strawberry")]

\* a label file whose names differ in case and surrounding whitespace only
YamlVariants == [exists |-> TRUE, parses |-> TRUE, kind |-> "list",
                 names |-> <<"Tomato", "tomato ">>]

DataYamlFiles == {YamlMissing, YamlCorrupt, YamlList}
Data2YamlFiles == {YamlMissing, YamlCorrupt, YamlDict}

Envs ==
    [yolo_installed : BOOLEAN,
     CV_USE_ENSEMBLE : BOOLEAN,
     CV_SECONDARY_MODEL : {None, "best2.pt"},
     weights : [WeightFiles -> WeightStates],
     data_yaml : DataYamlFiles,
     data2_yaml : Data2YamlFiles]

-----------------------------------------------------------------------------
(* Model loading.  A service is the record of the fields of                *)
(* DetectionService; the operators return the service after the call.      *)

\* the fields assigned by __init__ before _load_models
NewService(env) ==
    [primary_model |-> None,
     secondary_model |-> None,
     primary_class_names |-> <<>>,
     secondary_class_names |-> <<>>,
     primary_model_error |-> None,
     secondary_model_error |-> None,
     use_ensemble |-> env.CV_USE_ENSEMBLE]

primary_model_ready(s) == s.primary_model # None
secondary_model_ready(s) == s.secondary_model # None
model_ready(s) == s.primary_model # None \/ s.secondary_model # None

\* the class names read from a label file (empty when it is absent, does not
\* parse, or names is neither a dict nor a list)
LoadClassNames(yaml) ==
    IF ~yaml.exists \/ ~yaml.parses THEN <<>>
    ELSE IF yaml.kind = "dict" THEN yaml.names
    ELSE IF yaml.kind = "list"
         THEN [idx \in 0..(Len(yaml.names) - 1) |-> yaml.names[idx + 1]]
    ELSE <<>>

\* mutant: a missing weights file is always recorded against the primary slot
load_single_model_ErrorToPrimary(s, env, model_name, yaml, is_primary) ==
    IF env.weights[model_name] = "missing"
    THEN LET error_msg == "Model weights not found at " \o PathOf(model_name) IN
         [s EXCEPT !.primary_model_error = error_msg]
    ELSE LET class_names == LoadClassNames(yaml) IN
         IF env.weights[model_name] = "ok"
         THEN LET model == "YOLO(" \o PathOf(model_name) \o ")" IN
              IF is_primary
              THEN [s EXCEPT !.primary_model = model,
                             !.primary_class_names = class_names]
              ELSE [s EXCEPT !.secondary_model = model,
                             !.secondary_class_names = class_names]
         ELSE LET error_msg == "Failed to load detection model from "
                                 \o PathOf(model_name) \o ": " \o YoloLoadError IN
              IF is_primary
              THEN [s EXCEPT !.primary_model_error = error_msg,
                             !.primary_model = None]
              ELSE [s EXCEPT !.secondary_model_error = error_msg,
                             !.secondary_model = None]

load_single_model(s, env, model_name, yaml, is_primary) ==
    IF env.weights[model_name] = "missing"
    THEN LET error_msg == "Model weights not found at " \o PathOf(model_name) IN
         IF is_primary THEN [s EXCEPT !.primary_model_error = error_msg]
         ELSE [s EXCEPT !.secondary_model_error = error_msg]
    ELSE LET class_names == LoadClassNames(yaml) IN
         IF env.weights[model_name] = "ok"
         THEN LET model == "YOLO(" \o PathOf(model_name) \o ")" IN
              IF is_primary
              THEN [s EXCEPT !.primary_model = model,
                             !.primary_class_names = class_names]
              ELSE [s EXCEPT !.secondary_model = model,
                             !.secondary_class_names = class_names]
         ELSE LET error_msg == "Failed to load detection model from "
                                 \o PathOf(model_name) \o ": " \o YoloLoadError IN
              IF is_primary
              THEN [s EXCEPT !.primary_model_error = error_msg,
                             !.primary_model = None]
              ELSE [s EXCEPT !.secondary_model_error = error_msg,
                             !.secondary_model = None]

\* data2.yaml when it exists, else data.yaml
SecondaryYaml(env) == IF env.data2_yaml.exists THEN env.data2_yaml ELSE env.data_yaml

\* every auto-detected candidate that exists is loaded into the secondary slot
RECURSIVE LoadEachCandidate(_, _, _)
LoadEachCandidate(s, env, paths) ==
    IF paths = <<>> THEN s
    ELSE LoadEachCandidate(
             IF env.weights[Head(paths)] # "missing"
             THEN load_single_model(s, env, Head(paths), SecondaryYaml(env), FALSE)
             ELSE s,
             env, Tail(paths))

\* mutant: the auto-detect loop does not stop at the first candidate found
load_models_NoBreak(s, env) ==
    IF ~env.yolo_installed
    THEN LET error_msg == "Ultralytics package not installed. Run pip install ultralytics." IN
         [s EXCEPT !.primary_model_error = error_msg,
                   !.secondary_model_error = error_msg]
    ELSE LET s1 == load_single_model(s, env, CV_PRIMARY_MODEL, env.data_yaml, TRUE) IN
         IF Truthy(env.CV_SECONDARY_MODEL)
         THEN load_single_model(s1, env, env.CV_SECONDARY_MODEL, SecondaryYaml(env), FALSE)
         ELSE LoadEachCandidate(s1, env, secondary_paths)

load_models(s, env) ==
    IF ~env.yolo_installed
    THEN LET error_msg == "Ultralytics package not installed. Run pip install ultralytics." IN
         [s EXCEPT !.primary_model_error = error_msg,
                   !.secondary_model_error = error_msg]
    ELSE LET s1 == load_single_model(s, env, CV_PRIMARY_MODEL, env.data_yaml, TRUE) IN
         IF Truthy(env.CV_SECONDARY_MODEL)
         THEN load_single_model(s1, env, env.CV_SECONDARY_MODEL, SecondaryYaml(env), FALSE)
         ELSE LET found == {i \in 1..Len(secondary_paths) :
                               env.weights[secondary_paths[i]] # "missing"} IN
              IF found = {} THEN s1
              ELSE LET first == CHOOSE i \in found : \A j \in found : i <= j IN
                   load_single_model(s1, env, secondary_paths[first],
                                     SecondaryYaml(env), FALSE)

\* mutant: the request is stored without looking at readiness
set_ensemble_mode_Unchecked(s, enabled) == [s EXCEPT !.use_ensemble = enabled]

set_ensemble_mode(s, enabled) ==
    [s EXCEPT !.use_ensemble =
        enabled /\ primary_model_ready(s) /\ secondary_model_ready(s)]

\* mutant: the configured flag is kept as read, without set_ensemble_mode
Construct_KeepsConfiguredFlag(env) == load_models(NewService(env), env)

\* DetectionService.__init__
Construct(env) ==
    LET s == load_models(NewService(env), env) IN
    IF s.use_ensemble THEN set_ensemble_mode(s, TRUE) ELSE s

-----------------------------------------------------------------------------
(* Images and adapters.  An adapter is opaque: on a decoded image it       *)
(* either raises or returns boxes (class index, confidence, bbox).         *)

SeqsUpTo(S, n) == UNION {[1..k -> S] : k \in 0..n}

RawDetections == [cls : ClassIndices, conf : Confidences, xyxy : BBoxes]

\* messages of the exceptions an adapter raises during inference
AdapterErrors == {"CUDA out of memory", "tensor shape mismatch"}

\* what model(image) does: raise msg, or return boxes
AdapterOutcomes(n) ==
    {[raises |-> FALSE, msg |-> "", boxes |-> b] : b \in SeqsUpTo(RawDetections, n)}
    \cup {[raises |-> TRUE, msg |-> m, boxes |-> <<>>] : m \in AdapterErrors}

\* the outcome recorded for an adapter that cannot be invoked
NoOutcome == [raises |-> FALSE, msg |-> "", boxes |-> <<>>]

\* image payloads: empty, bytes PIL cannot decode, a decodable picture
ImagePayloads == {"", "not an image", "JPEG"}

\* mutant: Image.open accepts any non-empty bytes
Decodable_AnyBytes(image_bytes) == image_bytes # ""

Decodable(image_bytes) == image_bytes = "JPEG"

\* what Image.open raises on bytes it cannot decode
DecodeError == "cannot identify image file"

-----------------------------------------------------------------------------
(* Exceptions and the way a call ends.                                     *)

NoExc == [kind |-> "none", msg |-> ""]

DetectionModelNotReady(message) == [kind |-> "DetectionModelNotReady", msg |-> message]

\* an exception raised by an adapter: any Exception that is not a
\* DetectionModelNotReady
AdapterException(message) == [kind |-> "Exception", msg |-> message]

Returned(invoked, result) ==
    [invoked |-> invoked, status |-> "returned", exc |-> NoExc, result |-> result,
     model1 |-> <<>>, model2 |-> <<>>]

Raised(invoked, exc) ==
    [invoked |-> invoked, status |-> "raised", exc |-> exc, result |-> <<>>,
     model1 |-> <<>>, model2 |-> <<>>]

ReturnedBoth(invoked, model1, model2) ==
    [invoked |-> invoked, status |-> "returned", exc |-> NoExc, result |-> <<>>,
     model1 |-> model1, model2 |-> model2]

-----------------------------------------------------------------------------
(* Detection.                                                              *)

\* every label a detection can carry: the names of the label files and the
\* synthetic class names
Labels ==
    {YamlList.names[i] : i \in DOMAIN YamlList.names}
    \cup {YamlDict.names[i] : i \in DOMAIN YamlDict.names}
    \cup {YamlVariants.names[i] : i \in DOMAIN YamlVariants.names}
    \cup {"class_" \o ToString(c) : c \in ClassIndices}

\* _category_from_label and str.lower() tabulated over Labels
CategoryOf == [label \in Labels |-> category_from_label(label)]
LowerOf == [label \in Labels |-> Lower(label)]

\* mutant: the category is computed from the synthetic class name
Classify_CategoryFromIndex(box, class_names) ==
    LET label == DictGet(class_names, box.cls, "class_" \o ToString(box.cls)) IN
    [name |-> label,
     category |-> CategoryOf["class_" \o ToString(box.cls)],
     quantity |-> 1,
     confidence |-> box.conf,
     bbox |-> box.xyxy]

\* the detection built from one box
Classify(box, class_names) ==
    LET label == DictGet(class_names, box.cls, "class_" \o ToString(box.cls)) IN
    [name |-> label,
     category |-> CategoryOf[label],
     quantity |-> 1,
     confidence |-> box.conf,
     bbox |-> box.xyxy]

\* mutant: a model that finds nothing counts as having failed
detect_with_model_EmptyRaises(out, class_names) ==
    IF out.raises \/ out.boxes = <<>>
    THEN [raised |-> TRUE, exc |-> AdapterException(out.msg), detections |-> <<>>]
    ELSE [raised |-> FALSE, exc |-> NoExc,
          detections |-> [i \in 1..Len(out.boxes) |-> Classify(out.boxes[i], class_names)]]

\* _detect_with_model: out is what model(image) does
detect_with_model(out, class_names) ==
    IF out.raises
    THEN [raised |-> TRUE, exc |-> AdapterException(out.msg), detections |-> <<>>]
    ELSE [raised |-> FALSE, exc |-> NoExc,
          detections |-> [i \in 1..Len(out.boxes) |-> Classify(out.boxes[i], class_names)]]

\* an insertion-ordered dict as a sequence of [key, value]: d[key] = value
DictHas(d, key) == \E i \in 1..Len(d) : d[i].key = key
DictAt(d, key) == d[CHOOSE i \in 1..Len(d) : d[i].key = key].value
\* mutant: d[key] = value after del d[key]: an overwritten key moves to the end
DictPut_MovesToEnd(d, key, value) ==
    Append(SelectSeq(d, LAMBDA e : e.key # key), [key |-> key, value |-> value])

DictPut(d, key, value) ==
    IF DictHas(d, key)
    THEN [i \in 1..Len(d) |-> IF d[i].key = key THEN [key |-> key, value |-> value] ELSE d[i]]
    ELSE Append(d, [key |-> key, value |-> value])
DictValues(d) == [i \in 1..Len(d) |-> d[i].value]

\* mutant: a detection of equal confidence replaces the stored one
MergeReplaces_OnTie(merged, det) ==
    LET name == LowerOf[det.name] IN
    ~DictHas(merged, name) \/ det.confidence >= DictAt(merged, name).confidence

\* whether det takes the slot of its name in merged
MergeReplaces(merged, det) ==
    LET name == LowerOf[det.name] IN
    ~DictHas(merged, name) \/ det.confidence > DictAt(merged, name).confidence

\* the loop of _detect_with_ensemble over dets, starting from merged
RECURSIVE MergeLoop(_, _)
MergeLoop(merged, dets) ==
    IF dets = <<>> THEN merged
    ELSE LET det == Head(dets) IN
         MergeLoop(IF MergeReplaces(merged, det)
                   THEN DictPut(merged, LowerOf[det.name], det)
                   ELSE merged,
                   Tail(dets))

\* the merge of _detect_with_ensemble
merge_detections(primary_detections, secondary_detections) ==
    DictValues(MergeLoop(<<>>, primary_detections \o secondary_detections))

\* self._detect_with_model(self._primary_model, self._primary_class_names, image)
run_primary(s, pOut) == detect_with_model(pOut, s.primary_class_names)

\* mutant: the secondary's boxes are named with the primary label map
run_secondary_PrimaryLabels(s, sOut) == detect_with_model(sOut, s.primary_class_names)

\* self._detect_with_model(self._secondary_model, self._secondary_class_names, image)
run_secondary(s, sOut) == detect_with_model(sOut, s.secondary_class_names)

\* mutant: when the primary raises, the secondary's detections are returned
detect_with_ensemble_Partial(s, pOut, sOut) ==
    LET p == run_primary(s, pOut)
        r == run_secondary(s, sOut)
    IN  IF p.raised /\ r.raised THEN Raised(<<"primary", "secondary">>, r.exc)
        ELSE IF p.raised THEN Returned(<<"primary", "secondary">>, r.detections)
        ELSE IF r.raised THEN Returned(<<"primary", "secondary">>, p.detections)
        ELSE Returned(<<"primary", "secondary">>,
                      merge_detections(p.detections, r.detections))

\* mutant: the ensemble runs the secondary model first
detect_with_ensemble_SecondaryFirst(s, pOut, sOut) ==
    LET r == run_secondary(s, sOut) IN
    IF r.raised THEN Raised(<<"secondary">>, r.exc)
    ELSE LET p == run_primary(s, pOut) IN
         IF p.raised THEN Raised(<<"secondary", "primary">>, p.exc)
         ELSE Returned(<<"secondary", "primary">>,
                       merge_detections(p.detections, r.detections))

\* _detect_with_ensemble: no exception is caught
detect_with_ensemble(s, pOut, sOut) ==
    LET p == run_primary(s, pOut) IN
    IF p.raised THEN Raised(<<"primary">>, p.exc)
    ELSE LET r == run_secondary(s, sOut) IN
         IF r.raised THEN Raised(<<"primary", "secondary">>, r.exc)
         ELSE Returned(<<"primary", "secondary">>,
                       merge_detections(p.detections, r.detections))

\* the fallback to the secondary model and the final raise of
\* detect_ingredients; invoked is what ran before
\* mutant: with no secondary model the primary is run once more before the
\* call fails
detect_secondary_RetriesPrimary(s, sOut, invoked) ==
    IF s.secondary_model # None
    THEN LET r == run_secondary(s, sOut) IN
         IF r.raised
         THEN Raised(Append(invoked, "secondary"),
                     DetectionModelNotReady(
                         "Both primary and secondary models failed. Last error: "
                         \o r.exc.msg))
         ELSE Returned(Append(invoked, "secondary"), r.detections)
    ELSE Raised(Append(invoked, "primary"),
                DetectionModelNotReady(
                    Or3(s.primary_model_error, s.secondary_model_error,
                        "Detection models are not available.")))

detect_secondary(s, sOut, invoked) ==
    IF s.secondary_model # None
    THEN LET r == run_secondary(s, sOut) IN
         IF r.raised
         THEN Raised(Append(invoked, "secondary"),
                     DetectionModelNotReady(
                         "Both primary and secondary models failed. Last error: "
                         \o r.exc.msg))
         ELSE Returned(Append(invoked, "secondary"), r.detections)
    ELSE Raised(invoked,
                DetectionModelNotReady(
                    Or3(s.primary_model_error, s.secondary_model_error,
                        "Detection models are not available.")))

\* mutant: both models are run whenever both are ready
EnsembleSelected_IgnoresFlag(s) == primary_model_ready(s) /\ secondary_model_ready(s)

\* the test that sends detect_ingredients to _detect_with_ensemble
EnsembleSelected(s) ==
    s.use_ensemble /\ primary_model_ready(s) /\ secondary_model_ready(s)

\* mutant: after both models have run, their detections are fused only if
\* the ensemble flag is on at that moment; else the primary's are returned
detect_after_decision_FusesByCurrentFlag(s, ensemble, pOut, sOut) ==
    IF ensemble
    THEN LET r == detect_with_ensemble(s, pOut, sOut) IN
         IF r.status = "returned" /\ ~s.use_ensemble
         THEN Returned(r.invoked, run_primary(s, pOut).detections)
         ELSE r
    ELSE IF s.primary_model # None
    THEN LET p == run_primary(s, pOut) IN
         IF p.raised THEN detect_secondary(s, sOut, <<"primary">>)
         ELSE Returned(<<"primary">>, p.detections)
    ELSE detect_secondary(s, sOut, <<>>)

\* detect_ingredients from the ensemble test on; ensemble is what the test
\* of line 226 gave
detect_after_decision(s, ensemble, pOut, sOut) ==
    IF ensemble
    THEN detect_with_ensemble(s, pOut, sOut)
    ELSE IF s.primary_model # None
    THEN LET p == run_primary(s, pOut) IN
         IF p.raised THEN detect_secondary(s, sOut, <<"primary">>)
         ELSE Returned(<<"primary">>, p.detections)
    ELSE detect_secondary(s, sOut, <<>>)

\* the checks of detect_ingredients before the ensemble test; NoExc when the
\* image is decoded
entry_checks(s, image_bytes) ==
    IF image_bytes = ""
    THEN DetectionModelNotReady("Image payload was empty.")
    ELSE IF ~model_ready(s)
    THEN DetectionModelNotReady(
             Or3(s.primary_model_error, s.secondary_model_error,
                 "No detection models are available."))
    ELSE IF ~Decodable(image_bytes)
    THEN DetectionModelNotReady("Failed to decode image: " \o DecodeError)
    ELSE NoExc

detect_ingredients(s, image_bytes, pOut, sOut) ==
    IF entry_checks(s, image_bytes) # NoExc
    THEN Raised(<<>>, entry_checks(s, image_bytes))
    ELSE detect_after_decision(s, EnsembleSelected(s), pOut, sOut)

\* mutant: the name is lowercased but not stripped
GroupKey_Unstripped(det) == LowerOf[det.name] \o "_" \o det.category

\* the key of a detection in _group_and_count_detections
GroupKey(det) == Strip(LowerOf[det.name]) \o "_" \o det.category

\* mutant: the group takes the confidence of its most recent detection
GroupConfidence_MostRecent(existing_conf, new_conf) == new_conf

\* max(existing_conf, new_conf)
GroupConfidence(existing_conf, new_conf) ==
    IF new_conf > existing_conf THEN new_conf ELSE existing_conf

RECURSIVE GroupLoop(_, _)
GroupLoop(grouped, dets) ==
    IF dets = <<>> THEN grouped
    ELSE LET det == Head(dets)
             key == GroupKey(det)
         IN  GroupLoop(
                 IF DictHas(grouped, key)
                 THEN LET g == DictAt(grouped, key) IN
                      DictPut(grouped, key,
                              [g EXCEPT !.quantity = g.quantity + 1,
                                        !.confidence =
                                            GroupConfidence(g.confidence,
                                                            det.confidence)])
                 ELSE DictPut(grouped, key,
                              [name |-> det.name,
                               category |-> det.category,
                               quantity |-> 1,
                               unit |-> "item",
                               confidence |-> det.confidence,
                               bbox |-> det.bbox]),
                 Tail(dets))

group_and_count_detections(detections) == DictValues(GroupLoop(<<>>, detections))

\* the result of one model in detect_ingredients_both_models
both_models_slot(model, out, class_names) ==
    IF model = None THEN <<>>
    ELSE LET r == detect_with_model(out, class_names) IN
         IF r.raised THEN <<>> ELSE group_and_count_detections(r.detections)

\* mutant: an exception of either model's inference escapes the call
detect_ingredients_both_models_Propagates(s, image_bytes, pOut, sOut) ==
    IF image_bytes = ""
    THEN Raised(<<>>, DetectionModelNotReady("Image payload was empty."))
    ELSE IF ~primary_model_ready(s) /\ ~secondary_model_ready(s)
    THEN Raised(<<>>, DetectionModelNotReady(
                          Or3(s.primary_model_error, s.secondary_model_error,
                              "No detection models are available.")))
    ELSE IF ~Decodable(image_bytes)
    THEN Raised(<<>>, DetectionModelNotReady("Failed to decode image: " \o DecodeError))
    ELSE IF s.primary_model # None /\ pOut.raises
    THEN Raised(<<"primary">>, AdapterException(pOut.msg))
    ELSE IF s.secondary_model # None /\ sOut.raises
    THEN Raised((IF s.primary_model # None THEN <<"primary">> ELSE <<>>)
                    \o <<"secondary">>,
                AdapterException(sOut.msg))
    ELSE ReturnedBoth(
             (IF s.primary_model # None THEN <<"primary">> ELSE <<>>)
                 \o (IF s.secondary_model # None THEN <<"secondary">> ELSE <<>>),
             both_models_slot(s.primary_model, pOut, s.primary_class_names),
             both_models_slot(s.secondary_model, sOut, s.secondary_class_names))

\* mutant: in ensemble mode model1 holds the grouping of the fused detections
detect_ingredients_both_models_FusesInEnsemble(s, image_bytes, pOut, sOut) ==
    IF image_bytes = ""
    THEN Raised(<<>>, DetectionModelNotReady("Image payload was empty."))
    ELSE IF ~primary_model_ready(s) /\ ~secondary_model_ready(s)
    THEN Raised(<<>>, DetectionModelNotReady(
                          Or3(s.primary_model_error, s.secondary_model_error,
                              "No detection models are available.")))
    ELSE IF ~Decodable(image_bytes)
    THEN Raised(<<>>, DetectionModelNotReady("Failed to decode image: " \o DecodeError))
    ELSE ReturnedBoth(
             (IF s.primary_model # None THEN <<"primary">> ELSE <<>>)
                 \o (IF s.secondary_model # None THEN <<"secondary">> ELSE <<>>),
             IF EnsembleSelected(s) /\ ~pOut.raises /\ ~sOut.raises
             THEN group_and_count_detections(
                      merge_detections(run_primary(s, pOut).detections,
                                       run_secondary(s, sOut).detections))
             ELSE both_models_slot(s.primary_model, pOut, s.primary_class_names),
             both_models_slot(s.secondary_model, sOut, s.secondary_class_names))

detect_ingredients_both_models(s, image_bytes, pOut, sOut) ==
    IF image_bytes = ""
    THEN Raised(<<>>, DetectionModelNotReady("Image payload was empty."))
    ELSE IF ~primary_model_ready(s) /\ ~secondary_model_ready(s)
    THEN Raised(<<>>, DetectionModelNotReady(
                          Or3(s.primary_model_error, s.secondary_model_error,
                              "No detection models are available.")))
    ELSE IF ~Decodable(image_bytes)
    THEN Raised(<<>>, DetectionModelNotReady("Failed to decode image: " \o DecodeError))
    ELSE ReturnedBoth(
             (IF s.primary_model # None THEN <<"primary">> ELSE <<>>)
                 \o (IF s.secondary_model # None THEN <<"secondary">> ELSE <<>>),
             both_models_slot(s.primary_model, pOut, s.primary_class_names),
             both_models_slot(s.secondary_model, sOut, s.secondary_class_names))

-----------------------------------------------------------------------------
(* The document store.                                                     *)

\* the collections db.recipes and db.fridge_items, each the list of its
\* documents in insertion order
EmptyDb == [recipes |-> <<>>, fridge_items |-> <<>>]

-----------------------------------------------------------------------------
(* The service as a state machine.                                         *)

\* the service held in the variables
Svc ==
    [primary_model |-> primary_model,
     secondary_model |-> secondary_model,
     primary_class_names |-> primary_class_names,
     secondary_class_names |-> secondary_class_names,
     primary_model_error |-> primary_model_error,
     secondary_model_error |-> secondary_model_error,
     use_ensemble |-> use_ensemble]

\* the variables hold service s
IsService(s) ==
    /\ primary_model = s.primary_model
    /\ secondary_model = s.secondary_model
    /\ primary_class_names = s.primary_class_names
    /\ secondary_class_names = s.secondary_class_names
    /\ primary_model_error = s.primary_model_error
    /\ secondary_model_error = s.secondary_model_error
    /\ use_ensemble = s.use_ensemble

NoCall ==
    [op |-> "none", pc |-> "idle", flag |-> FALSE, seen |-> {},
     env |-> None, enabled |-> FALSE, label |-> "", image_bytes |-> "",
     recipe_id |-> "", lookup |-> "none", suggested |-> <<>>,
     fridge_before |-> <<>>,
     pOut |-> NoOutcome, sOut |-> NoOutcome,
     out |-> [invoked |-> <<>>, status |-> "none", exc |-> NoExc,
              result |-> <<>>, model1 |-> <<>>, model2 |-> <<>>]]

\* what an adapter may do on an image: only a bound adapter given a decoded
\* image does anything
OutcomesFor(model, image_bytes, n) ==
    IF model # None /\ Decodable(image_bytes) THEN AdapterOutcomes(n) ELSE {NoOutcome}

\* the module-level instance: detection_service = DetectionService()
Init ==
    /\ db = EmptyDb
    /\ \E env \in Envs : IsService(Construct(env))
    /\ call = NoCall

\* mutant: switching ensemble mode off also drops the secondary model
SetEnsembleMode_Unbinds ==
    \E enabled \in BOOLEAN :
        LET s == set_ensemble_mode(Svc, enabled) IN
        /\ call = NoCall
        /\ use_ensemble' = s.use_ensemble
        /\ secondary_model' = IF enabled THEN secondary_model ELSE None
        /\ call' = [NoCall EXCEPT !.op = "set_ensemble_mode",
                                  !.enabled = enabled,
                                  !.out = Returned(<<>>, <<>>)]
        /\ UNCHANGED <<db, primary_model, primary_class_names,
                       secondary_class_names, primary_model_error,
                       secondary_model_error>>

SetEnsembleMode ==
    \E enabled \in BOOLEAN :
        LET s == set_ensemble_mode(Svc, enabled) IN
        /\ call = NoCall
        /\ use_ensemble' = s.use_ensemble
        /\ call' = [NoCall EXCEPT !.op = "set_ensemble_mode",
                                  !.enabled = enabled,
                                  !.out = Returned(<<>>, <<>>)]
        /\ UNCHANGED <<db, primary_model, secondary_model, primary_class_names,
                       secondary_class_names, primary_model_error,
                       secondary_model_error>>

\* mutant: a primary adapter that raised is taken out of service
DetectIngredients_UnbindsOnRaise ==
    /\ call = NoCall
    /\ \E image_bytes \in ImagePayloads :
       \E pOut \in OutcomesFor(primary_model, image_bytes, MaxDet) :
       \E sOut \in OutcomesFor(secondary_model, image_bytes, MaxDet) :
           LET out == detect_ingredients(Svc, image_bytes, pOut, sOut)
               failed == pOut.raises /\ out.invoked # <<>> /\ Head(out.invoked) = "primary"
           IN  /\ call' = [NoCall EXCEPT !.op = "detect_ingredients",
                                         !.image_bytes = image_bytes,
                                         !.pOut = pOut,
                                         !.sOut = sOut,
                                         !.out = out]
               /\ primary_model' = IF failed THEN None ELSE primary_model
               /\ primary_model_error' = IF failed THEN pOut.msg ELSE primary_model_error
               /\ UNCHANGED <<db, secondary_model, primary_class_names, secondary_class_names,
                              secondary_model_error, use_ensemble>>

DetectIngredients ==
    /\ call = NoCall
    /\ \E image_bytes \in ImagePayloads :
       \E pOut \in OutcomesFor(primary_model, image_bytes, MaxDet) :
       \E sOut \in OutcomesFor(secondary_model, image_bytes, MaxDet) :
           /\ call' = [NoCall EXCEPT !.op = "detect_ingredients",
                                     !.image_bytes = image_bytes,
                                     !.pOut = pOut,
                                     !.sOut = sOut,
                                     !.out = detect_ingredients(Svc, image_bytes, pOut, sOut)]
           /\ UNCHANGED <<service_vars, db>>

DetectIngredientsBothModels ==
    /\ call = NoCall
    /\ \E image_bytes \in ImagePayloads :
       \E pOut \in OutcomesFor(primary_model, image_bytes, MaxDet) :
       \E sOut \in OutcomesFor(secondary_model, image_bytes, MaxDet) :
           /\ call' = [NoCall EXCEPT !.op = "detect_ingredients_both_models",
                                     !.image_bytes = image_bytes,
                                     !.pOut = pOut,
                                     !.sOut = sOut,
                                     !.out = detect_ingredients_both_models(
                                                 Svc, image_bytes, pOut, sOut)]
           /\ UNCHANGED <<service_vars, db>>

\* the dict of the model-status endpoint
get_model_status(s) ==
    [model_ready |-> model_ready(s),
     primary_model_ready |-> primary_model_ready(s),
     secondary_model_ready |-> secondary_model_ready(s),
     primary_model_error |-> s.primary_model_error,
     secondary_model_error |-> s.secondary_model_error,
     ensemble_mode |-> s.use_ensemble]

GetModelStatus ==
    /\ call = NoCall
    /\ call' = [NoCall EXCEPT !.op = "get_model_status",
                              !.out = Returned(<<>>, get_model_status(Svc))]
    /\ UNCHANGED <<service_vars, db>>

\* the caller has taken the result of the call; the service awaits the next
CallReturns ==
    /\ call # NoCall
    /\ call' = NoCall
    /\ UNCHANGED <<service_vars, db>>

Next ==
    \/ SetEnsembleMode
    \/ DetectIngredients
    \/ DetectIngredientsBothModels
    \/ GetModelStatus
    \/ CallReturns

Spec == Init /\ [][Next]_vars

-----------------------------------------------------------------------------
(* Construction on its own: the service before and after _load_models, in  *)
(* the environment the constructor reads.                                  *)

\* the assignments to the attributes of self
BecomesService(s) ==
    /\ primary_model' = s.primary_model
    /\ secondary_model' = s.secondary_model
    /\ primary_class_names' = s.primary_class_names
    /\ secondary_class_names' = s.secondary_class_names
    /\ primary_model_error' = s.primary_model_error
    /\ secondary_model_error' = s.secondary_model_error
    /\ use_ensemble' = s.use_ensemble

\* lines 46-53 of __init__ have run
InitLoad ==
    \E env \in Envs :
        /\ db = EmptyDb
        /\ IsService(NewService(env))
        /\ call = [NoCall EXCEPT !.op = "construct_input", !.env = env]

\* lines 54-56 of __init__: _load_models and the ensemble flag
ConstructService ==
    /\ call.op = "construct_input"
    /\ BecomesService(Construct(call.env))
    /\ UNCHANGED db
    /\ call' = [call EXCEPT !.op = "construct", !.out = Returned(<<>>, <<>>)]

NextLoad == ConstructService

SpecLoad == InitLoad /\ [][NextLoad]_vars

-----------------------------------------------------------------------------
(* The ensemble merge on its own: the inputs are the detections the two    *)
(* models of an ensemble deployment return for one image.                  *)

\* deployments in which both models load and ensemble mode is configured
MergeEnvs ==
    {env \in Envs :
        /\ env.yolo_installed
        /\ env.CV_USE_ENSEMBLE
        /\ env.CV_SECONDARY_MODEL = "best2.pt"
        /\ \A f \in WeightFiles : env.weights[f] = "ok"
        /\ env.data_yaml = YamlList
        /\ env.data2_yaml \in {YamlMissing, YamlDict}}

InitMerge ==
    /\ db = EmptyDb
    /\ \E env \in MergeEnvs : IsService(Construct(env))
    /\ \E pOut \in OutcomesFor(primary_model, "JPEG", MaxMergeLen) :
       \E sOut \in OutcomesFor(secondary_model, "JPEG", MaxMergeLen) :
           /\ ~pOut.raises
           /\ ~sOut.raises
           /\ call = [NoCall EXCEPT !.op = "merge_input",
                                    !.image_bytes = "JPEG",
                                    !.pOut = pOut,
                                    !.sOut = sOut]

\* lines 300-310 of _detect_with_ensemble applied to the two lists
Merge ==
    /\ call.op = "merge_input"
    /\ call' = [call EXCEPT
                  !.op = "merge",
                  !.out = Returned(
                      <<>>,
                      merge_detections(
                          detect_with_model(call.pOut, primary_class_names).detections,
                          detect_with_model(call.sOut, secondary_class_names).detections))]
    /\ UNCHANGED <<service_vars, db>>

NextMerge == Merge

SpecMerge == InitMerge /\ [][NextMerge]_vars

-----------------------------------------------------------------------------
(* _group_and_count_detections on its own: the input is the list of        *)
(* detections the primary model of a deployment returns for one image.     *)

GroupYamlFiles == {YamlMissing, YamlList, YamlDict, YamlVariants}

\* deployments with a loaded primary model and one of the label files
GroupEnvs ==
    {[yolo_installed |-> TRUE,
      CV_USE_ENSEMBLE |-> FALSE,
      CV_SECONDARY_MODEL |-> None,
      weights |-> [f \in WeightFiles |->
                      IF f = CV_PRIMARY_MODEL THEN "ok" ELSE "missing"],
      data_yaml |-> yaml,
      data2_yaml |-> YamlMissing] : yaml \in GroupYamlFiles}

\* what the model returns: up to MaxGroupLen boxes
GroupOutcomes ==
    {[raises |-> FALSE, msg |-> "", boxes |-> b] :
        b \in SeqsUpTo([cls : ClassIndices, conf : Confidences, xyxy : GroupBBoxes],
                       MaxGroupLen)}

InitGroup ==
    /\ db = EmptyDb
    /\ \E env \in GroupEnvs : IsService(Construct(env))
    /\ \E pOut \in GroupOutcomes :
           call = [NoCall EXCEPT !.op = "group_input",
                                 !.image_bytes = "JPEG",
                                 !.pOut = pOut]

\* lines 340-344 of detect_ingredients_both_models: the primary's detections
\* are grouped
Group ==
    /\ call.op = "group_input"
    /\ call' = [call EXCEPT
                  !.op = "group",
                  !.out = Returned(
                      <<>>,
                      group_and_count_detections(
                          detect_with_model(call.pOut, primary_class_names).detections))]
    /\ UNCHANGED <<service_vars, db>>

NextGroup == Group

SpecGroup == InitGroup /\ [][NextGroup]_vars

-----------------------------------------------------------------------------
(* _category_from_label on its own, on the labels a label file may hold.   *)

VocabularyEntries ==
    UNION {{v[i] : i \in DOMAIN v} : v \in {fruits, vegetables, dairy, meat, grains, other}}

\* labels: every vocabulary entry, bare, padded with whitespace and inside a
\* longer name, and names that mix entries and fallback patterns
CategoryLabels ==
    VocabularyEntries
    \cup {" " \o v \o "\t" : v \in VocabularyEntries}
    \cup {v \o " slices" : v \in VocabularyEntries}
    \cup {"Sweet Potato", "Strawberry", "TOMATO", "Egg", "Blue Berry",
          "corn berry", "fruit bread", "corn flour", "apple carrot",
          "milk chicken", "Cheese Leaf", "dark chocolate", "chocolate cream",
          "raspberry", "dragon fruit", "bay leaf", "veggie mix", "sour cream",
          "fish fillet", "whole grain", "grain cream", "leaf fish",
          "class_0", "class_1", "water", ""}

InitCategory ==
    /\ db = EmptyDb
    /\ \E env \in GroupEnvs : IsService(Construct(env))
    /\ \E label \in CategoryLabels :
           call = [NoCall EXCEPT !.op = "category_input", !.label = label]

\* self._category_from_label(label)
CategoryFromLabel ==
    /\ call.op = "category_input"
    /\ call' = [call EXCEPT
                  !.op = "category",
                  !.out = Returned(<<>>, category_from_label(call.label))]
    /\ UNCHANGED <<service_vars, db>>

NextCategory == CategoryFromLabel

SpecCategory == InitCategory /\ [][NextCategory]_vars

-----------------------------------------------------------------------------
(* detect_ingredients running while another thread calls                   *)
(* set_ensemble_mode: the call is split at the statements that read the    *)
(* service, and a toggle may fall between any two of them.                 *)

\* deployments with a configured secondary, each weights file present or not
ConcurrentEnvs ==
    {[yolo_installed |-> TRUE,
      CV_USE_ENSEMBLE |-> e,
      CV_SECONDARY_MODEL |-> "best2.pt",
      weights |-> [f \in WeightFiles |->
                      IF f = CV_PRIMARY_MODEL THEN p
                      ELSE IF f = "best2.pt" THEN s
                      ELSE "missing"],
      data_yaml |-> YamlList,
      data2_yaml |-> YamlDict] :
        e \in BOOLEAN, p \in {"ok", "missing"}, s \in {"ok", "missing"}}

InitConcurrent ==
    /\ db = EmptyDb
    /\ \E env \in ConcurrentEnvs : IsService(Construct(env))
    /\ call = NoCall

\* lines 210-223: the payload, readiness and decode checks
StartDetect ==
    \E image_bytes \in ImagePayloads :
        /\ call = NoCall
        /\ call' = [NoCall EXCEPT
                      !.op = "detect_ingredients",
                      !.image_bytes = image_bytes,
                      !.seen = {use_ensemble},
                      !.pc = IF entry_checks(Svc, image_bytes) = NoExc
                             THEN "line226" ELSE "done",
                      !.out = IF entry_checks(Svc, image_bytes) = NoExc
                              THEN NoCall.out
                              ELSE Raised(<<>>, entry_checks(Svc, image_bytes))]
        /\ UNCHANGED <<service_vars, db>>

\* line 226: the one read of self._use_ensemble
DecideMode ==
    /\ call.pc = "line226"
    /\ call' = [call EXCEPT !.pc = "infer", !.flag = EnsembleSelected(Svc)]
    /\ UNCHANGED <<service_vars, db>>

\* lines 227-255: the inference calls of the branch taken
Infer ==
    \E pOut \in OutcomesFor(primary_model, call.image_bytes, MaxDet) :
    \E sOut \in OutcomesFor(secondary_model, call.image_bytes, MaxDet) :
        /\ call.pc = "infer"
        /\ call' = [call EXCEPT
                      !.pc = "done",
                      !.pOut = pOut,
                      !.sOut = sOut,
                      !.out = detect_after_decision(Svc, call.flag, pOut, sOut)]
        /\ UNCHANGED <<service_vars, db>>

\* set_ensemble_mode in another thread, before or during the call; seen
\* collects the values the flag has held during the call
ToggleEnsemble ==
    \E enabled \in BOOLEAN :
        LET s == set_ensemble_mode(Svc, enabled) IN
        /\ call.pc \in {"idle", "line226", "infer"}
        /\ use_ensemble' = s.use_ensemble
        /\ call' = IF call.pc = "idle" THEN call
                   ELSE [call EXCEPT !.seen = @ \cup {s.use_ensemble}]
        /\ UNCHANGED <<db, primary_model, secondary_model, primary_class_names,
                       secondary_class_names, primary_model_error,
                       secondary_model_error>>

\* the caller has the result
FinishDetect ==
    /\ call.pc = "done"
    /\ call' = NoCall
    /\ UNCHANGED <<service_vars, db>>

NextConcurrent ==
    \/ StartDetect
    \/ DecideMode
    \/ Infer
    \/ ToggleEnsemble
    \/ FinishDetect

SpecConcurrent == InitConcurrent /\ [][NextConcurrent]_vars

-----------------------------------------------------------------------------
(* Label files: a service constructed with every kind of label file, then  *)
(* one detect_ingredients call; the environment stays in call.env.         *)

\* deployments with ensemble off and a configured secondary whose weights
\* load; the primary weights load or are missing
LabelEnvs ==
    {[yolo_installed |-> TRUE,
      CV_USE_ENSEMBLE |-> FALSE,
      CV_SECONDARY_MODEL |-> "best2.pt",
      weights |-> [f \in WeightFiles |->
                      IF f = CV_PRIMARY_MODEL THEN p
                      ELSE IF f = "best2.pt" THEN "ok"
                      ELSE "missing"],
      data_yaml |-> y,
      data2_yaml |-> y2] :
        p \in {"ok", "missing"}, y \in DataYamlFiles, y2 \in Data2YamlFiles}

InitLabels ==
    \E env \in LabelEnvs :
        /\ db = EmptyDb
        /\ IsService(Construct(env))
        /\ call = [NoCall EXCEPT !.op = "constructed", !.env = env]

DetectWithLabels ==
    \E pOut \in OutcomesFor(primary_model, "JPEG", MaxDet) :
    \E sOut \in OutcomesFor(secondary_model, "JPEG", MaxDet) :
        /\ call.op = "constructed"
        /\ call' = [call EXCEPT
                      !.op = "detect_ingredients",
                      !.image_bytes = "JPEG",
                      !.pOut = pOut,
                      !.sOut = sOut,
                      !.out = detect_ingredients(Svc, "JPEG", pOut, sOut)]
        /\ UNCHANGED <<service_vars, db>>

NextLabels == DetectWithLabels

SpecLabels == InitLabels /\ [][NextLabels]_vars

-----------------------------------------------------------------------------
(* The recipe endpoints over db.recipes.  TheMealDB is outside: a lookup    *)
(* gives a recipe or nothing, a search gives any list of recipes.          *)

RecipeIds == {"52772", "52874", "53013"}

\* the lists of distinct recipe ids a search may return
SearchResults ==
    {ids \in SeqsUpTo(RecipeIds, Cardinality(RecipeIds)) :
        \A i, j \in 1..Len(ids) : ids[i] = ids[j] => i = j}

\* what recipe_service.get_recipe_details returns: a recipe, or None (no such
\* meal, or the request failed)
Lookups == {"found", "none"}

HTTPException(status_code, detail) ==
    [kind |-> "HTTPException", msg |-> ToString(status_code) \o " " \o detail]

\* reading a local variable that no executed statement has assigned
UnboundLocalError(name) ==
    [kind |-> "UnboundLocalError",
     msg |-> "local variable '" \o name \o "' referenced before assignment"]

\* the None of find_one, as a document with no id
NoDocument == [external_id |-> None, created_by |-> None]

\* db.recipes.find_one({"external_id": recipe_id}): the document or None
find_recipe(recipes, recipe_id) ==
    IF \E i \in 1..Len(recipes) : recipes[i].external_id = recipe_id
    THEN recipes[CHOOSE i \in 1..Len(recipes) : recipes[i].external_id = recipe_id]
    ELSE NoDocument

\* db.recipes.update_one({"external_id": id}, {"$set": summary_doc}, upsert=True)
\* for every recipe of a search result
RECURSIVE upsert_recipes(_, _)
upsert_recipes(recipes, ids) ==
    IF ids = <<>> THEN recipes
    ELSE upsert_recipes(
             IF find_recipe(recipes, Head(ids)) # NoDocument THEN recipes
             ELSE Append(recipes, [external_id |-> Head(ids),
                                   created_by |-> "themealdb"]),
             Tail(ids))

\* the endpoint get_recipe_details: the collection after the request and how
\* the request ends.  On a cache miss with a recipe found, line 162 reads
\* document, which is assigned only inside the `if not recipe` block after
\* its raise.
get_recipe_details(recipes, recipe_id, lookup) ==
    LET doc == find_recipe(recipes, recipe_id) IN
    IF doc # NoDocument
    THEN [recipes |-> recipes, out |-> Returned(<<>>, doc)]
    ELSE IF lookup = "none"
    THEN [recipes |-> recipes,
          out |-> Raised(<<"themealdb">>, HTTPException(404, "Recipe not found"))]
    ELSE [recipes |-> recipes,
          out |-> Raised(<<"themealdb">>, UnboundLocalError("document"))]

\* one deployment: the service plays no part in the recipe endpoints
RecipeEnv == CHOOSE env \in GroupEnvs : env.data_yaml = YamlList

InitRecipes ==
    /\ db = EmptyDb
    /\ IsService(Construct(RecipeEnv))
    /\ call = NoCall

\* the endpoint get_recipe_suggestions, as far as db.recipes goes
GetRecipeSuggestions ==
    \E ids \in SearchResults :
        /\ call = NoCall
        /\ db' = [db EXCEPT !.recipes = upsert_recipes(db.recipes, ids)]
        /\ call' = [NoCall EXCEPT !.op = "get_recipe_suggestions",
                                  !.suggested = ids,
                                  !.out = Returned(<<"themealdb">>, ids)]
        /\ UNCHANGED service_vars

GetRecipeDetails ==
    \E recipe_id \in RecipeIds :
    \E lookup \in (IF find_recipe(db.recipes, recipe_id) # NoDocument
                   THEN {"none"} ELSE Lookups) :
        LET r == get_recipe_details(db.recipes, recipe_id, lookup) IN
        /\ call = NoCall
        /\ db' = [db EXCEPT !.recipes = r.recipes]
        /\ call' = [NoCall EXCEPT !.op = "get_recipe_details",
                                  !.recipe_id = recipe_id,
                                  !.lookup = lookup,
                                  !.out = r.out]
        /\ UNCHANGED service_vars

NextRecipes ==
    \/ GetRecipeSuggestions
    \/ GetRecipeDetails
    \/ CallReturns

SpecRecipes == InitRecipes /\ [][NextRecipes]_vars

-----------------------------------------------------------------------------
(* The scan endpoint over db.fridge_items.                                 *)

DEFAULT_USER_ID == "default-user"

\* what check_freshness_mock draws
FreshnessValues == {"fresh", "spoiled"}

\* the document scan_fridge builds from one grouped detection
fridge_document(item_data, freshness) ==
    [user_id |-> DEFAULT_USER_ID,
     name |-> item_data.name,
     category |-> item_data.category,
     quantity |-> item_data.quantity,
     unit |-> item_data.unit,
     freshness_status |-> freshness,
     confidence_score |-> item_data.confidence]

\* the FridgeItem shown for one grouped detection of a model
temp_item(model, idx, item_data, freshness) ==
    [id |-> "temp-" \o model \o "-" \o ToString(idx),
     name |-> item_data.name,
     category |-> item_data.category,
     quantity |-> item_data.quantity,
     unit |-> item_data.unit,
     freshness_status |-> freshness,
     confidence_score |-> item_data.confidence]

\* the response and the collection after one request
scan_response(fridge_items, documents, model1_serialized, model2_serialized) ==
    [fridge_items |-> fridge_items \o documents,
     out |-> [Returned(<<>>, [items |-> documents,
                              total_detected |-> Len(documents),
                              message |-> IF documents # <<>>
                                          THEN "Successfully detected "
                                               \o ToString(Len(documents)) \o " items"
                                          ELSE "No items detected"])
                 EXCEPT !.model1 = model1_serialized,
                        !.model2 = model2_serialized]]

\* mutant: the documents are built from detected_items, which is model2's
\* list when model1's is empty
scan_fridge_StoresDetectedItems(s, fridge_items, image_bytes, pOut, sOut, fresh1, fresh2) ==
    LET r == detect_ingredients_both_models(s, image_bytes, pOut, sOut) IN
    IF r.status = "raised"
    THEN [fridge_items |-> fridge_items,
          out |-> Raised(r.invoked,
                         IF r.exc.kind = "DetectionModelNotReady"
                         THEN HTTPException(503, r.exc.msg)
                         ELSE HTTPException(500, "Failed to process image."))]
    ELSE LET detected_items == IF r.model1 # <<>> THEN r.model1 ELSE r.model2
             fresh == IF r.model1 # <<>> THEN fresh1 ELSE fresh2
         IN  [scan_response(
                  fridge_items,
                  [i \in 1..Len(detected_items) |->
                      fridge_document(detected_items[i], fresh[i])],
                  [i \in 1..Len(r.model1) |->
                      temp_item("model1", i - 1, r.model1[i], fresh1[i])],
                  [i \in 1..Len(r.model2) |->
                      temp_item("model2", i - 1, r.model2[i], fresh2[i])])
              EXCEPT !.out.invoked = r.invoked]

\* the endpoint scan_fridge; fresh1 and fresh2 are the freshness drawn for
\* the items of model1 and model2
scan_fridge(s, fridge_items, image_bytes, pOut, sOut, fresh1, fresh2) ==
    LET r == detect_ingredients_both_models(s, image_bytes, pOut, sOut) IN
    IF r.status = "raised"
    THEN [fridge_items |-> fridge_items,
          out |-> Raised(r.invoked,
                         IF r.exc.kind = "DetectionModelNotReady"
                         THEN HTTPException(503, r.exc.msg)
                         ELSE HTTPException(500, "Failed to process image."))]
    ELSE [scan_response(
              fridge_items,
              [i \in 1..Len(r.model1) |-> fridge_document(r.model1[i], fresh1[i])],
              [i \in 1..Len(r.model1) |->
                  temp_item("model1", i - 1, r.model1[i], fresh1[i])],
              [i \in 1..Len(r.model2) |->
                  temp_item("model2", i - 1, r.model2[i], fresh2[i])])
          EXCEPT !.out.invoked = r.invoked]

\* deployments: both models loaded, or the secondary alone, or none
ScanEnvs ==
    {[yolo_installed |-> TRUE,
      CV_USE_ENSEMBLE |-> FALSE,
      CV_SECONDARY_MODEL |-> "best2.pt",
      weights |-> [f \in WeightFiles |->
                      IF f = CV_PRIMARY_MODEL THEN p
                      ELSE IF f = "best2.pt" THEN s
                      ELSE "missing"],
      data_yaml |-> YamlList,
      data2_yaml |-> YamlDict] :
        p \in {"ok", "missing"}, s \in {"ok", "missing"}}

\* a document stored by an earlier scan
SeedItem ==
    [user_id |-> DEFAULT_USER_ID, name |-> "Egg", category |-> "dairy",
     quantity |-> 1, unit |-> "item", freshness_status |-> "fresh",
     confidence_score |-> 80]

InitScan ==
    /\ \E env \in ScanEnvs : IsService(Construct(env))
    /\ \E stored \in {<<>>, <<SeedItem>>} : db = [EmptyDb EXCEPT !.fridge_items = stored]
    /\ call = NoCall

ScanFridge ==
    /\ call = NoCall
    /\ \E image_bytes \in ImagePayloads :
       \E pOut \in OutcomesFor(primary_model, image_bytes, MaxDet) :
       \E sOut \in OutcomesFor(secondary_model, image_bytes, MaxDet) :
       \E fresh1 \in [1..Len(both_models_slot(primary_model, pOut, primary_class_names))
                         -> FreshnessValues] :
       \E fresh2 \in [1..Len(both_models_slot(secondary_model, sOut, secondary_class_names))
                         -> FreshnessValues] :
           LET r == scan_fridge(Svc, db.fridge_items, image_bytes, pOut, sOut,
                                fresh1, fresh2)
           IN  /\ db' = [db EXCEPT !.fridge_items = r.fridge_items]
               /\ call' = [NoCall EXCEPT !.op = "scan_fridge",
                                         !.image_bytes = image_bytes,
                                         !.pOut = pOut,
                                         !.sOut = sOut,
                                         !.fridge_before = db.fridge_items,
                                         !.out = r.out]
               /\ UNCHANGED service_vars

NextScan == ScanFridge

SpecScan == InitScan /\ [][NextScan]_vars

-----------------------------------------------------------------------------
(* Vocabulary of the properties.                                           *)

PrimaryBound == primary_model # None
SecondaryBound == secondary_model # None

\* the last call was detect_ingredients on a non-empty decodable image
DetectedOnImage == call.op = "detect_ingredients" /\ Decodable(call.image_bytes)

\* the detections a model's boxes classify to under a label map
ClassifiedWith(boxes, class_names) ==
    [i \in 1..Len(boxes) |-> Classify(boxes[i], class_names)]

\* the mode table of the orchestration policy
ModeOf(primaryReady, secondaryReady, ensembleEffective) ==
    IF primaryReady /\ secondaryReady /\ ensembleEffective THEN "Ensemble"
    ELSE IF primaryReady THEN "PrimaryOnly"
    ELSE IF secondaryReady THEN "SecondaryOnly"
    ELSE "Unavailable"

CurrentMode == ModeOf(PrimaryBound, SecondaryBound, use_ensemble)

\* the message of the not-ready error when no slot is bound
NoSlotMessage ==
    IF primary_model_error # None /\ primary_model_error # ""
    THEN primary_model_error
    ELSE IF secondary_model_error # None /\ secondary_model_error # ""
    THEN secondary_model_error
    ELSE "No detection models are available."

-----------------------------------------------------------------------------
(* Properties of Spec.                                                     *)

\* C1: on a non-empty decodable image detect_ingredients executes the mode of
\* the table for (primary bound, secondary bound, ensemble flag).  Ensemble:
\* the primary runs first, the secondary after it unless the primary raised,
\* and two successes are fused.  PrimaryOnly: the primary runs first, alone
\* when it succeeds, and its detections are returned unfused.  The secondary
\* is the only model run exactly when the primary is unbound and the
\* secondary bound, and nothing is run exactly when neither is bound.
C1_ModeSelection ==
    DetectedOnImage =>
        LET out == call.out
            p == ClassifiedWith(call.pOut.boxes, primary_class_names)
            s == ClassifiedWith(call.sOut.boxes, secondary_class_names)
        IN
        /\ CurrentMode = "Ensemble" =>
              /\ out.invoked = IF call.pOut.raises THEN <<"primary">>
                               ELSE <<"primary", "secondary">>
              /\ (~call.pOut.raises /\ ~call.sOut.raises) =>
                     /\ out.status = "returned"
                     /\ out.result = merge_detections(p, s)
        /\ CurrentMode = "PrimaryOnly" =>
              /\ out.invoked # <<>>
              /\ Head(out.invoked) = "primary"
              /\ ~call.pOut.raises =>
                     /\ out.invoked = <<"primary">>
                     /\ out.status = "returned"
                     /\ out.result = p
        /\ out.invoked = <<"secondary">> <=> CurrentMode = "SecondaryOnly"
        /\ out.invoked = <<>> <=> CurrentMode = "Unavailable"

\* both slots bound, ensemble on, both models ran and their detections of
\* the same name were fused into one entry
C1_Witness ==
    /\ DetectedOnImage
    /\ CurrentMode = "Ensemble"
    /\ call.out.invoked = <<"primary", "secondary">>
    /\ call.out.status = "returned"
    /\ Len(call.pOut.boxes) = 1
    /\ Len(call.sOut.boxes) = 1
    /\ Len(call.out.result) = 1

\* C2 as stated: with neither slot bound, both detect operations raise
\* DetectionModelNotReady without invoking an adapter, with the primary load
\* error as message if it is non-empty, else the secondary load error if it
\* is non-empty, else the generic message.
C2_NoSlotMessageAlways ==
    (/\ call.op \in {"detect_ingredients", "detect_ingredients_both_models"}
     /\ ~PrimaryBound
     /\ ~SecondaryBound) =>
        /\ call.out.status = "raised"
        /\ call.out.exc.kind = "DetectionModelNotReady"
        /\ call.out.invoked = <<>>
        /\ call.out.exc.msg = NoSlotMessage

\* C2 amended: the same for a non-empty image payload (an empty payload is
\* rejected first, with its own message).
C2_NoSlotMessage ==
    (/\ call.op \in {"detect_ingredients", "detect_ingredients_both_models"}
     /\ call.image_bytes # ""
     /\ ~PrimaryBound
     /\ ~SecondaryBound) =>
        /\ call.out.status = "raised"
        /\ call.out.exc.kind = "DetectionModelNotReady"
        /\ call.out.invoked = <<>>
        /\ call.out.exc.msg = NoSlotMessage

\* neither slot bound, the two load errors differ, a picture was submitted
\* and the call raised the primary load error
C2_Witness ==
    /\ call.op = "detect_ingredients_both_models"
    /\ call.image_bytes = "JPEG"
    /\ ~PrimaryBound
    /\ ~SecondaryBound
    /\ secondary_model_error # None
    /\ secondary_model_error # primary_model_error
    /\ call.out.status = "raised"
    /\ call.out.exc.msg = primary_model_error

\* C3: after set_ensemble_mode(requested) the effective flag is
\* requested AND primary ready AND secondary ready, and the call returned
\* (it raises for no request and no readiness).
C3_EffectiveEnsemble ==
    call.op = "set_ensemble_mode" =>
        /\ use_ensemble = (call.enabled /\ PrimaryBound /\ SecondaryBound)
        /\ call.out.status = "returned"

\* ensemble was requested with exactly one slot ready and stayed off
C3_Witness ==
    /\ call.op = "set_ensemble_mode"
    /\ call.enabled
    /\ PrimaryBound # SecondaryBound
    /\ ~use_ensemble
    /\ call.out.status = "returned"

\* C4: ensemble off, both slots bound, the primary adapter raises and the
\* secondary succeeds: detect_ingredients returns exactly the secondary's
\* detections, classified with the secondary label map.
C4_FallbackToSecondary ==
    (/\ DetectedOnImage
     /\ ~use_ensemble
     /\ PrimaryBound
     /\ SecondaryBound
     /\ call.pOut.raises
     /\ ~call.sOut.raises) =>
        /\ call.out.status = "returned"
        /\ call.out.result = ClassifiedWith(call.sOut.boxes, secondary_class_names)

\* the fallback returned a detection that the primary label map would have
\* named differently
C4_Witness ==
    /\ DetectedOnImage
    /\ ~use_ensemble
    /\ PrimaryBound
    /\ SecondaryBound
    /\ call.pOut.raises
    /\ ~call.sOut.raises
    /\ call.out.status = "returned"
    /\ Len(call.out.result) = 1
    /\ call.out.result # ClassifiedWith(call.sOut.boxes, primary_class_names)

\* C5: in Ensemble mode, when either adapter raises (or would raise) on the
\* image, detect_ingredients fails and returns no detections, also when the
\* other model succeeds.
C5_NoPartialEnsemble ==
    (/\ DetectedOnImage
     /\ CurrentMode = "Ensemble"
     /\ (call.pOut.raises \/ call.sOut.raises)) =>
        /\ call.out.status = "raised"
        /\ call.out.result = <<>>

\* an ensemble call failed on the primary although the secondary had
\* detections to give
C5_Witness ==
    /\ DetectedOnImage
    /\ CurrentMode = "Ensemble"
    /\ call.pOut.raises
    /\ ~call.sOut.raises
    /\ Len(call.sOut.boxes) = 1
    /\ call.out.status = "raised"
    /\ call.out.result = <<>>

\* C6: in Ensemble mode, when an adapter raises during inference, the error
\* that escapes detect_ingredients is an aggregated error: it names both
\* slots and contains the message of every adapter that raised.
C6_AggregatedEnsembleError ==
    (/\ DetectedOnImage
     /\ CurrentMode = "Ensemble"
     /\ call.out.status = "raised") =>
        /\ Contains("primary", Lower(call.out.exc.msg))
        /\ Contains("secondary", Lower(call.out.exc.msg))
        /\ call.pOut.raises => Contains(call.pOut.msg, call.out.exc.msg)
        /\ (~call.pOut.raises /\ call.sOut.raises) =>
               Contains(call.sOut.msg, call.out.exc.msg)

\* C7: ensemble off and primary bound: when the primary adapter raises and
\* the secondary is unbound or raises too, detect_ingredients fails with a
\* message that contains the primary's inference error, and the secondary's
\* when the secondary was attempted.
C7_ErrorEmbedsBothFailures ==
    (/\ DetectedOnImage
     /\ CurrentMode = "PrimaryOnly"
     /\ call.pOut.raises
     /\ (~SecondaryBound \/ call.sOut.raises)) =>
        /\ call.out.status = "raised"
        /\ Contains(call.pOut.msg, call.out.exc.msg)
        /\ SecondaryBound => Contains(call.sOut.msg, call.out.exc.msg)

\* C8: in SecondaryOnly mode the primary adapter is not invoked, and a
\* failure of the secondary adapter is raised as an inference failure of the
\* secondary alone: carrying its message, not as a not-ready error and not
\* as a failure of the primary model.
C8_SecondaryOnlyFailure ==
    (/\ DetectedOnImage
     /\ CurrentMode = "SecondaryOnly") =>
        /\ \A i \in 1..Len(call.out.invoked) : call.out.invoked[i] # "primary"
        /\ call.sOut.raises =>
              /\ call.out.status = "raised"
              /\ Contains(call.sOut.msg, call.out.exc.msg)
              /\ call.out.exc.kind # "DetectionModelNotReady"
              /\ ~Contains("primary", Lower(call.out.exc.msg))

\* C9: detect_ingredients returns a list or raises DetectionModelNotReady,
\* the one error kind the service declares and the scan path maps to 503; an
\* adapter's own exception never escapes.
C9_OnlyDeclaredErrors ==
    call.op = "detect_ingredients" =>
        \/ call.out.status = "returned"
        \/ /\ call.out.status = "raised"
           /\ call.out.exc.kind = "DetectionModelNotReady"

-----------------------------------------------------------------------------
(* Properties of SpecMerge.                                                *)

\* the two lists handed to the merge, and what was merged
MergePrimary == ClassifiedWith(call.pOut.boxes, primary_class_names)
MergeSecondary == ClassifiedWith(call.sOut.boxes, secondary_class_names)
MergeInput == MergePrimary \o MergeSecondary

\* the first detection of dets that has the greatest confidence among those
\* named name, case ignored
FirstBest(dets, name) ==
    LET same == {i \in 1..Len(dets) : LowerOf[dets[i].name] = name}
        best == {i \in same : \A j \in same : dets[j].confidence <= dets[i].confidence}
    IN  dets[CHOOSE i \in best : \A j \in best : i <= j]

\* C10: the merge returns exactly one entry per distinct lowercase(name) of
\* the two lists, and the entry is the first detection of maximal confidence
\* with that name in primary-then-secondary order: a later detection takes
\* the slot only with a strictly greater confidence, so that a primary
\* detection wins an exact tie with a secondary one.
C10_MergeKeepsFirstBest ==
    call.op = "merge" =>
        LET result == call.out.result
            names == {LowerOf[MergeInput[i].name] : i \in 1..Len(MergeInput)}
        IN
        /\ {LowerOf[result[i].name] : i \in 1..Len(result)} = names
        /\ Len(result) = Cardinality(names)
        /\ \A i \in 1..Len(result) :
               result[i] = FirstBest(MergeInput, LowerOf[result[i].name])

\* a primary "Egg" and a secondary "egg" tied on confidence, and the single
\* entry returned is the primary's
C10_Witness ==
    /\ call.op = "merge"
    /\ Len(MergePrimary) = 1
    /\ Len(MergeSecondary) = 1
    /\ MergePrimary[1].name = "Egg"
    /\ MergeSecondary[1].name = "egg"
    /\ MergePrimary[1].confidence = MergeSecondary[1].confidence
    /\ call.out.result = <<MergePrimary[1]>>

\* the distinct elements of a sequence in order of first occurrence
RECURSIVE FirstOccurrences(_)
FirstOccurrences(seq) ==
    IF seq = <<>> THEN <<>>
    ELSE LET front == FirstOccurrences(SubSeq(seq, 1, Len(seq) - 1))
             last == seq[Len(seq)]
         IN  IF \E i \in 1..Len(front) : front[i] = last THEN front
             ELSE Append(front, last)

\* C11: the merge output is ordered by the first insertion of each
\* lowercase(name): the names of the primary detections in their order, then
\* the names first seen in the secondary ones.  It is not sorted by
\* confidence, and a name overwritten by a more confident detection keeps
\* its place.
C11_MergeKeepsInsertionOrder ==
    call.op = "merge" =>
        [i \in 1..Len(call.out.result) |-> LowerOf[call.out.result[i].name]]
            = FirstOccurrences([i \in 1..Len(MergeInput) |-> LowerOf[MergeInput[i].name]])

\* the primary's first entry was overwritten by a more confident secondary
\* detection and still precedes an entry of higher confidence than the
\* primary had
C11_Witness ==
    /\ call.op = "merge"
    /\ Len(MergePrimary) = 2
    /\ Len(MergeSecondary) = 1
    /\ Len(call.out.result) = 2
    /\ MergePrimary[1].confidence < MergePrimary[2].confidence
    /\ call.out.result[1] = MergeSecondary[1]
    /\ call.out.result[2] = MergePrimary[2]

-----------------------------------------------------------------------------
(* Properties of SpecGroup.                                                *)

\* the list handed to _group_and_count_detections
GroupInput == ClassifiedWith(call.pOut.boxes, primary_class_names)

\* the greatest confidence among the detections of dets at the indices in
\* members
MaxConfidence(dets, members) ==
    LET i == CHOOSE k \in members :
                 \A j \in members : dets[j].confidence <= dets[k].confidence
    IN  dets[i].confidence

\* the input detections sharing (lowercase(name), category) with group g
SameLowerName(g) ==
    {j \in 1..Len(GroupInput) :
        /\ LowerOf[GroupInput[j].name] = LowerOf[g.name]
        /\ GroupInput[j].category = g.category}

\* the input detections sharing (lowercase(name) stripped of surrounding
\* whitespace, category) with group g
SameStrippedName(g) ==
    {j \in 1..Len(GroupInput) :
        /\ Strip(LowerOf[GroupInput[j].name]) = Strip(LowerOf[g.name])
        /\ GroupInput[j].category = g.category}

\* C12 as stated: each group's quantity is the number of input detections
\* sharing its (lowercase(name), category) key, and its confidence is the
\* maximum confidence among them.
C12_CountAndMaxByLowerName ==
    call.op = "group" =>
        \A i \in 1..Len(call.out.result) :
            LET g == call.out.result[i] IN
            /\ g.quantity = Cardinality(SameLowerName(g))
            /\ g.confidence = MaxConfidence(GroupInput, SameLowerName(g))

\* C12 amended: the same with the key the code groups by, in which the
\* lowercased name is also stripped of surrounding whitespace.
C12_CountAndMax ==
    call.op = "group" =>
        \A i \in 1..Len(call.out.result) :
            LET g == call.out.result[i] IN
            /\ g.quantity = Cardinality(SameStrippedName(g))
            /\ g.confidence = MaxConfidence(GroupInput, SameStrippedName(g))

\* a group of three detections, one of them named with trailing whitespace,
\* whose confidence is that of the second: neither the most recent nor the
\* first
C12_Witness ==
    /\ call.op = "group"
    /\ Len(GroupInput) = 3
    /\ \E j \in 2..3 : LowerOf[GroupInput[j].name] # LowerOf[GroupInput[1].name]
    /\ Len(call.out.result) = 1
    /\ call.out.result[1].quantity = 3
    /\ GroupInput[1].confidence < GroupInput[2].confidence
    /\ GroupInput[3].confidence < GroupInput[2].confidence
    /\ call.out.result[1].confidence = GroupInput[2].confidence

-----------------------------------------------------------------------------
(* Properties of detect_ingredients_both_models.                           *)

DetectedBothOnImage ==
    /\ call.op = "detect_ingredients_both_models"
    /\ call.image_bytes # ""
    /\ Decodable(call.image_bytes)

\* what one key of the result holds: nothing for an unbound slot or a raising
\* adapter, else the slot's own detections grouped
SlotResult(model, out, class_names) ==
    IF model = None \/ out.raises THEN <<>>
    ELSE group_and_count_detections(ClassifiedWith(out.boxes, class_names))

\* C13: with a non-empty decodable image and at least one bound slot,
\* detect_ingredients_both_models returns whatever the adapters do; the key
\* of an unbound slot or of a slot whose adapter raised holds the empty list
\* and the other key still holds that slot's grouped detections.
C13_BothModelsNeverRaises ==
    (DetectedBothOnImage /\ (PrimaryBound \/ SecondaryBound)) =>
        /\ call.out.status = "returned"
        /\ call.out.exc = NoExc
        /\ call.out.model1 = SlotResult(primary_model, call.pOut, primary_class_names)
        /\ call.out.model2 = SlotResult(secondary_model, call.sOut, secondary_class_names)

\* the primary adapter raises and the secondary's detections come back
C13_Witness ==
    /\ DetectedBothOnImage
    /\ PrimaryBound /\ SecondaryBound
    /\ call.pOut.raises
    /\ ~call.sOut.raises
    /\ Len(call.sOut.boxes) > 0
    /\ call.out.status = "returned"
    /\ call.out.model1 = <<>>
    /\ Len(call.out.model2) > 0

-----------------------------------------------------------------------------
(* Frame of the two detection operations.                                  *)

\* the step is a call of detect_ingredients or detect_ingredients_both_models
DetectStep ==
    call'.op \in {"detect_ingredients", "detect_ingredients_both_models"}

\* what get_model_status reads
ModelStatus ==
    [model_ready |-> model_ready(Svc),
     primary_model_ready |-> primary_model_ready(Svc),
     secondary_model_ready |-> secondary_model_ready(Svc),
     use_ensemble |-> use_ensemble,
     primary_error |-> primary_model_error,
     secondary_error |-> secondary_model_error]

\* C14: a call of detect_ingredients or detect_ingredients_both_models,
\* whatever the adapters do in it, leaves both slots' bindings, label maps
\* and load errors and the ensemble flag as they were, and with them the
\* readiness and status values.
C14_DetectKeepsService ==
    [][DetectStep => (UNCHANGED service_vars /\ ModelStatus' = ModelStatus)]_vars

\* a call in which the primary adapter has raised and the primary slot is
\* still bound, ready and free of a load error
C14_Witness ==
    /\ call.op \in {"detect_ingredients", "detect_ingredients_both_models"}
    /\ call.pOut.raises
    /\ Len(call.out.invoked) > 0
    /\ PrimaryBound
    /\ primary_model_ready(Svc)
    /\ primary_model_error = None

-----------------------------------------------------------------------------
(* The slots after loading.                                                *)

\* a slot is fully bound or unbound
SlotConsistent(model, model_error) ==
    \/ model # None /\ model_error = None
    \/ model = None

\* C15: in every state of the constructed service each slot is either bound
\* with no load error or unbound; none has both an adapter and a load error.
C15_NoPartiallyBoundSlot ==
    /\ SlotConsistent(primary_model, primary_model_error)
    /\ SlotConsistent(secondary_model, secondary_model_error)
    /\ ~(primary_model # None /\ primary_model_error # None)
    /\ ~(secondary_model # None /\ secondary_model_error # None)

\* a service in use with the primary bound and the secondary unbound with its
\* construction error recorded
C15_Witness ==
    /\ call.op = "detect_ingredients"
    /\ PrimaryBound
    /\ primary_model_error = None
    /\ ~SecondaryBound
    /\ secondary_model_error # None
    /\ Len(secondary_model_error) > Len("Failed to load detection model from ")
    /\ SubSeq(secondary_model_error, 1, 6) = "Failed"

-----------------------------------------------------------------------------
(* Properties of SpecLoad.                                                 *)

\* the weights file _load_models hands to _load_single_model for the
\* secondary slot; None when auto-detection finds no file and the slot is
\* not loaded at all
SecondaryWeights(env) ==
    IF Truthy(env.CV_SECONDARY_MODEL) THEN env.CV_SECONDARY_MODEL
    ELSE IF \A i \in 1..Len(secondary_paths) : env.weights[secondary_paths[i]] = "missing"
    THEN None
    ELSE secondary_paths[CHOOSE i \in 1..Len(secondary_paths) :
                             /\ env.weights[secondary_paths[i]] # "missing"
                             /\ \A j \in 1..(i - 1) :
                                    env.weights[secondary_paths[j]] = "missing"]

\* what loading weights file f leaves in a slot; f = None: no load
SlotLoadedFrom(env, f, model, model_error) ==
    IF f = None THEN model = None /\ model_error = None
    ELSE IF env.weights[f] = "ok" THEN model # None /\ model_error = None
    ELSE /\ model = None
         /\ model_error # None
         /\ Len(model_error) > 0

\* C16: construction returns; a slot whose weights file is missing or whose
\* adapter construction fails is unbound and holds a non-empty load error,
\* and what the other slot holds depends on its own weights file only: it is
\* bound with no error when that file loads.  Without the ultralytics
\* package no slot is loaded and both hold the error.
C16_LoadFailureStaysInSlot ==
    call.op = "construct" =>
        /\ call.out.status = "returned"
        /\ IF call.env.yolo_installed
           THEN /\ SlotLoadedFrom(call.env, CV_PRIMARY_MODEL,
                                  primary_model, primary_model_error)
                /\ SlotLoadedFrom(call.env, SecondaryWeights(call.env),
                                  secondary_model, secondary_model_error)
           ELSE /\ primary_model = None /\ secondary_model = None
                /\ Truthy(primary_model_error) /\ Truthy(secondary_model_error)

\* the primary weights are missing, the configured secondary is corrupt in
\* one deployment and loads in another: here the one where it loads
C16_Witness ==
    /\ call.op = "construct"
    /\ call.env.yolo_installed
    /\ call.env.weights[CV_PRIMARY_MODEL] = "missing"
    /\ primary_model = None
    /\ Truthy(primary_model_error)
    /\ call.env.CV_SECONDARY_MODEL = "best2.pt"
    /\ secondary_model # None
    /\ secondary_model_error = None

-----------------------------------------------------------------------------
(* Payloads that are not images.                                           *)

\* C17: detect_ingredients and detect_ingredients_both_models, given an empty
\* payload or bytes that are not an image, raise DetectionModelNotReady with
\* no adapter invoked, whatever the slots and the ensemble flag are.
C17_BadPayloadFailsBeforeInference ==
    (/\ call.op \in {"detect_ingredients", "detect_ingredients_both_models"}
     /\ call.image_bytes \in {"", "not an image"}) =>
        /\ call.out.status = "raised"
        /\ call.out.exc.kind = "DetectionModelNotReady"
        /\ call.out.invoked = <<>>
        /\ call.out.result = <<>> /\ call.out.model1 = <<>> /\ call.out.model2 = <<>>

\* bytes that are not an image, given to an ensemble service with both slots
\* bound: the decode failure is what is raised
C17_Witness ==
    /\ call.op \in {"detect_ingredients", "detect_ingredients_both_models"}
    /\ call.image_bytes = "not an image"
    /\ PrimaryBound /\ SecondaryBound /\ use_ensemble
    /\ call.out.status = "raised"
    /\ call.out.exc = DetectionModelNotReady("Failed to decode image: " \o DecodeError)
    /\ call.out.invoked = <<>>

-----------------------------------------------------------------------------
(* Properties of SpecCategory.                                             *)

\* the vocabulary sets in their order, with their categories
VocabularySets ==
    <<[category |-> "fruits", entries |-> fruits],
      [category |-> "vegetables", entries |-> vegetables],
      [category |-> "dairy", entries |-> dairy],
      [category |-> "meat", entries |-> meat],
      [category |-> "grains", entries |-> grains],
      [category |-> "other", entries |-> other]>>

\* the keyword fragments with their categories
FragmentRules ==
    <<[category |-> "fruits", entries |-> <<"fruit", "berry">>],
      [category |-> "vegetables", entries |-> <<"veg", "leaf">>],
      [category |-> "dairy", entries |-> <<"milk", "cream", "cheese">>],
      [category |-> "meat", entries |-> <<"chicken", "meat", "fish", "shrimp">>],
      [category |-> "grains", entries |-> <<"bread", "flour", "grain">>]>>

\* the label as the tiers see it
Normalized(label) == Strip(Lower(label))

\* categories of the sets holding the label itself
ExactHits(label) ==
    {VocabularySets[k].category : k \in
        {j \in 1..6 : InList(Normalized(label), VocabularySets[j].entries)}}

\* categories of the sets of the substring tier (all but other) with an entry
\* inside the label
SubstringHits(label) ==
    {VocabularySets[k].category : k \in
        {j \in 1..5 : ContainsAny(VocabularySets[j].entries, Normalized(label))}}

\* categories of the fragment rules with a keyword inside the label
FragmentHits(label) ==
    {FragmentRules[k].category : k \in
        {j \in 1..5 : ContainsAny(FragmentRules[j].entries, Normalized(label))}}

\* C18: the tiers of _category_from_label apply in fixed priority: a label
\* equal (ignoring case) to a vocabulary entry gets that entry's category;
\* otherwise a label containing an entry of the substring tier gets a
\* category of that tier, whatever fragments it contains; the fragment rules
\* decide only labels with neither kind of match; every other label is
\* "uncategorized".  "Sweet Potato" is vegetables and "Strawberry" fruits.
C18_TierPriority ==
    call.op = "category" =>
        LET label == call.label
            category == call.out.result
        IN  /\ ExactHits(label) # {} => ExactHits(label) = {category}
            /\ (ExactHits(label) = {} /\ SubstringHits(label) # {})
                   => category \in SubstringHits(label)
            /\ (ExactHits(label) = {} /\ SubstringHits(label) = {}
                    /\ FragmentHits(label) # {})
                   => category \in FragmentHits(label)
            /\ (ExactHits(label) = {} /\ SubstringHits(label) = {}
                    /\ FragmentHits(label) = {})
                   => category = "uncategorized"
            /\ label = "Sweet Potato" => category = "vegetables"
            /\ label = "Strawberry" => category = "fruits"

\* a label with no exact hit that contains the vegetable "corn" and the fruit
\* fragment "berry": the substring tier decides
C18_Witness ==
    /\ call.op = "category"
    /\ call.label = "corn berry"
    /\ ExactHits(call.label) = {}
    /\ SubstringHits(call.label) = {"vegetables"}
    /\ FragmentHits(call.label) = {"fruits"}
    /\ call.out.result = "vegetables"

-----------------------------------------------------------------------------
(* Inference calls within one detect_ingredients call.                     *)

\* C19: with ensemble off, the primary bound and the secondary unbound, a
\* detect_ingredients call whose primary adapter raises fails after exactly
\* one inference call, that of the primary.
C19_SingleAttemptWithoutSecondary ==
    (/\ DetectedOnImage
     /\ ~use_ensemble
     /\ PrimaryBound
     /\ ~SecondaryBound
     /\ call.pOut.raises) =>
        /\ call.out.status = "raised"
        /\ Len(call.out.invoked) = 1
        /\ call.out.invoked = <<"primary">>

C19_Witness ==
    /\ DetectedOnImage
    /\ ~use_ensemble
    /\ PrimaryBound
    /\ ~SecondaryBound
    /\ call.pOut.raises
    /\ call.out.status = "raised"
    /\ call.out.invoked = <<"primary">>

\* the adapters a call has run, in order
Invoked == call.out.invoked

\* C20: in one detect_ingredients call each adapter runs at most once and
\* the primary before the secondary; outside ensemble mode the secondary
\* runs only if the primary is unbound or has raised; in ensemble mode the
\* secondary does not run once the primary has raised; and once the call is
\* over nothing of it is left pending.
C20_InferenceOrder ==
    /\ call.op = "detect_ingredients" =>
           /\ Invoked \in {<<>>, <<"primary">>, <<"secondary">>,
                           <<"primary", "secondary">>}
           /\ \A i, j \in 1..Len(Invoked) : Invoked[i] = Invoked[j] => i = j
           /\ (CurrentMode # "Ensemble" /\ \E i \in 1..Len(Invoked) : Invoked[i] = "secondary")
                  => (~PrimaryBound \/ call.pOut.raises)
           /\ (CurrentMode = "Ensemble" /\ call.pOut.raises)
                  => \A i \in 1..Len(Invoked) : Invoked[i] # "secondary"
    /\ call.op = "none" => call = NoCall

\* an ensemble call that ran the primary and then the secondary
C20_Witness ==
    /\ call.op = "detect_ingredients"
    /\ CurrentMode = "Ensemble"
    /\ ~call.pOut.raises
    /\ Invoked = <<"primary", "secondary">>
    /\ call.out.status = "returned"

-----------------------------------------------------------------------------
(* An adapter that finds nothing.                                          *)

\* C21: with ensemble off and the primary bound, a primary adapter that
\* returns no detections makes detect_ingredients return the empty list, and
\* the secondary adapter is not invoked.
C21_EmptyIsSuccess ==
    (/\ DetectedOnImage
     /\ ~use_ensemble
     /\ PrimaryBound
     /\ ~call.pOut.raises
     /\ call.pOut.boxes = <<>>) =>
        /\ call.out.status = "returned"
        /\ call.out.exc = NoExc
        /\ call.out.result = <<>>
        /\ Invoked = <<"primary">>

\* the secondary is bound and would have returned a detection
C21_Witness ==
    /\ DetectedOnImage
    /\ ~use_ensemble
    /\ PrimaryBound /\ SecondaryBound
    /\ ~call.pOut.raises
    /\ call.pOut.boxes = <<>>
    /\ Len(call.sOut.boxes) > 0
    /\ call.out.status = "returned"
    /\ call.out.result = <<>>
    /\ Invoked = <<"primary">>

-----------------------------------------------------------------------------
(* The effective ensemble flag.                                            *)

\* C22: in every state of the constructed service, whatever was configured
\* and whatever set_ensemble_mode calls were made, the ensemble flag is true
\* only if both the primary and the secondary slot are ready.
C22_EnsembleOnlyWhenBothReady ==
    use_ensemble => (primary_model_ready(Svc) /\ secondary_model_ready(Svc))

\* ensemble was requested on a service whose primary failed to load while the
\* secondary loaded: the flag is off
C22_Witness ==
    /\ call.op = "set_ensemble_mode"
    /\ call.enabled
    /\ ~primary_model_ready(Svc)
    /\ Truthy(primary_model_error)
    /\ secondary_model_ready(Svc)
    /\ ~use_ensemble

-----------------------------------------------------------------------------
(* Properties of SpecConcurrent.                                           *)

\* the finished call ran the adapters and fused as the row of the mode table
\* for mode says
ModeRowHolds(mode) ==
    LET out == call.out
        p == ClassifiedWith(call.pOut.boxes, primary_class_names)
        s == ClassifiedWith(call.sOut.boxes, secondary_class_names)
    IN  CASE mode = "Ensemble" ->
                 /\ out.invoked = IF call.pOut.raises THEN <<"primary">>
                                  ELSE <<"primary", "secondary">>
                 /\ (~call.pOut.raises /\ ~call.sOut.raises) =>
                        /\ out.status = "returned"
                        /\ out.result = merge_detections(p, s)
          [] mode = "PrimaryOnly" ->
                 /\ out.invoked # <<>>
                 /\ Head(out.invoked) = "primary"
                 /\ (Len(out.invoked) > 1) => call.pOut.raises
                 /\ ~call.pOut.raises =>
                        /\ out.invoked = <<"primary">>
                        /\ out.status = "returned"
                        /\ out.result = p
          [] mode = "SecondaryOnly" -> out.invoked = <<"secondary">>
          [] OTHER -> out.invoked = <<>>

\* C23: a detect_ingredients call during which set_ensemble_mode was called
\* any number of times runs the adapters and fuses as the mode-table row for
\* the slots' readiness and one of the values the ensemble flag held during
\* the call says; never a mixture of two flag values.
C23_ModeDecisionNotTorn ==
    (/\ call.op = "detect_ingredients"
     /\ call.pc = "done"
     /\ Decodable(call.image_bytes)) =>
        \E f \in call.seen : ModeRowHolds(ModeOf(PrimaryBound, SecondaryBound, f))

\* the flag was on when the call read it and was switched off before the
\* models ran: both ran and their detections were fused
C23_Witness ==
    /\ call.op = "detect_ingredients"
    /\ call.pc = "done"
    /\ call.seen = {TRUE, FALSE}
    /\ call.flag
    /\ ~use_ensemble
    /\ call.out.invoked = <<"primary", "secondary">>
    /\ call.out.status = "returned"
    /\ Len(call.pOut.boxes) = 1 /\ Len(call.sOut.boxes) = 1
    /\ Len(call.out.result) = 2

-----------------------------------------------------------------------------
(* The slots after startup.                                                *)

\* the fields of the two slots
slot_vars ==
    <<primary_model, secondary_model, primary_class_names, secondary_class_names,
      primary_model_error, secondary_model_error>>

\* C24: no step of the constructed service - a detection, a status query or
\* set_ensemble_mode - changes a slot's adapter, label map or load error,
\* and the ensemble flag changes in set_ensemble_mode steps only.
C24_SlotsFixedAfterStartup ==
    [][/\ UNCHANGED slot_vars
       /\ use_ensemble' # use_ensemble => call'.op = "set_ensemble_mode"]_vars

\* ensemble has been switched off on a service with both slots bound and both
\* label maps loaded: the slots are as they were
C24_Witness ==
    /\ call.op = "set_ensemble_mode"
    /\ ~call.enabled
    /\ ~use_ensemble
    /\ PrimaryBound /\ SecondaryBound
    /\ primary_class_names # <<>> /\ secondary_class_names # <<>>
    /\ primary_model_error = None /\ secondary_model_error = None

-----------------------------------------------------------------------------
(* The two models side by side.                                            *)

\* C25: detect_ingredients_both_models, when it returns, has run every bound
\* adapter exactly once, the primary first, whatever the ensemble flag is and
\* whatever the other adapter did; model1 is the grouping of the primary's
\* detections alone and model2 that of the secondary's alone, and the call
\* gives the same outcome with the ensemble flag inverted.
C25_BothModelsSeparate ==
    (DetectedBothOnImage /\ call.out.status = "returned") =>
        /\ Invoked = (IF PrimaryBound THEN <<"primary">> ELSE <<>>)
                        \o (IF SecondaryBound THEN <<"secondary">> ELSE <<>>)
        /\ call.out.model1 =
               IF PrimaryBound /\ ~call.pOut.raises
               THEN group_and_count_detections(
                        ClassifiedWith(call.pOut.boxes, primary_class_names))
               ELSE <<>>
        /\ call.out.model2 =
               IF SecondaryBound /\ ~call.sOut.raises
               THEN group_and_count_detections(
                        ClassifiedWith(call.sOut.boxes, secondary_class_names))
               ELSE <<>>
        /\ call.out = detect_ingredients_both_models(
                          [Svc EXCEPT !.use_ensemble = ~use_ensemble],
                          call.image_bytes, call.pOut, call.sOut)

\* ensemble mode on, both models detect the same name: it is in both lists,
\* counted once in each
C25_Witness ==
    /\ DetectedBothOnImage
    /\ use_ensemble
    /\ Len(call.pOut.boxes) = 1 /\ Len(call.sOut.boxes) = 1
    /\ Invoked = <<"primary", "secondary">>
    /\ Len(call.out.model1) = 1 /\ Len(call.out.model2) = 1
    /\ LowerOf[call.out.model1[1].name] = LowerOf[call.out.model2[1].name]
    /\ call.out.model1[1].confidence # call.out.model2[1].confidence
    /\ call.out.model1[1].quantity = 1 /\ call.out.model2[1].quantity = 1

\* the (lowercase(name), category) pair of a detection
LowerNamePair(det) == <<LowerOf[det.name], det.category>>

\* the pair the code groups by: the lowercased name is also stripped
StrippedNamePair(det) == <<Strip(LowerOf[det.name]), det.category>>

\* the first detection of the input with the stripped pair of group g
FirstOfGroup(g) ==
    GroupInput[CHOOSE j \in 1..Len(GroupInput) :
                   /\ StrippedNamePair(GroupInput[j]) = StrippedNamePair(g)
                   /\ \A k \in 1..(j - 1) :
                          StrippedNamePair(GroupInput[k]) # StrippedNamePair(g)]

\* C26 as stated: the groups are, in order of first occurrence, the distinct
\* (lowercase(name), category) pairs of the input, one group per pair.
C26_OneGroupPerLowerNamePair ==
    call.op = "group" =>
        [i \in 1..Len(call.out.result) |-> LowerNamePair(call.out.result[i])]
            = FirstOccurrences([i \in 1..Len(GroupInput) |->
                                    LowerNamePair(GroupInput[i])])

\* C26 amended: the groups are, in order of first occurrence, the distinct
\* (stripped lowercase(name), category) pairs of the input, one per pair; a
\* group's name and bbox are those of the first detection with its pair and
\* its unit is "item".
C26_OneGroupPerKey ==
    call.op = "group" =>
        /\ [i \in 1..Len(call.out.result) |-> StrippedNamePair(call.out.result[i])]
               = FirstOccurrences([i \in 1..Len(GroupInput) |->
                                       StrippedNamePair(GroupInput[i])])
        /\ \A i \in 1..Len(call.out.result) :
               LET g == call.out.result[i] IN
               /\ g.name = FirstOfGroup(g).name
               /\ g.bbox = FirstOfGroup(g).bbox
               /\ g.unit = "item"

\* three detections, the first and third in one group with different boxes
\* and confidences, the second in another: two groups in input order, the
\* first with the name and box of the first detection
C26_Witness ==
    /\ call.op = "group"
    /\ Len(GroupInput) = 3
    /\ Len(call.out.result) = 2
    /\ StrippedNamePair(GroupInput[1]) = StrippedNamePair(GroupInput[3])
    /\ GroupInput[1].confidence < GroupInput[3].confidence
    /\ GroupInput[1].bbox # GroupInput[3].bbox
    /\ call.out.result[1].name = GroupInput[1].name
    /\ call.out.result[1].bbox = GroupInput[1].bbox
    /\ call.out.result[1].quantity = 2
    /\ call.out.result[2].name = GroupInput[2].name

-----------------------------------------------------------------------------
(* Properties of SpecLabels.                                               *)

\* the label file handed to the load of the secondary slot
SecondaryLabelFile ==
    IF call.env.data2_yaml.exists THEN call.env.data2_yaml ELSE call.env.data_yaml

\* a slot loaded with a label file that is missing or does not parse is bound
\* with an empty label map and no load error
BoundWithoutLabels(yaml, model, class_names, model_error) ==
    (~yaml.exists \/ ~yaml.parses) =>
        /\ model # None
        /\ class_names = <<>>
        /\ model_error = None

\* the detection a box gives under label map class_names
Resolved(box, class_names) ==
    LET name == IF box.cls \in DOMAIN class_names THEN class_names[box.cls]
                ELSE "class_" \o ToString(box.cls)
    IN  [name |-> name,
         category |-> category_from_label(name),
         quantity |-> 1,
         confidence |-> box.conf,
         bbox |-> box.xyxy]

EarliestSubstringSet(label) ==
    CHOOSE k \in 1..5 :
        /\ ContainsAny(VocabularySets[k].entries, Normalized(label))
        /\ \A j \in 1..(k - 1) :
               ~ContainsAny(VocabularySets[j].entries, Normalized(label))

\* C28: a label with no exact hit that contains entries of one or several of
\* the sets fruits, vegetables, dairy, meat, grains gets the category of the
\* earliest such set in that order ("apple carrot" is fruits, "corn flour"
\* vegetables); "other" is given to the label "chocolate" alone, never to a
\* label that merely contains it.
C28_SubstringOrder ==
    call.op = "category" =>
        LET label == call.label
            category == call.out.result
        IN  /\ (ExactHits(label) = {} /\ SubstringHits(label) # {}) =>
                   category = VocabularySets[EarliestSubstringSet(label)].category
            /\ label = "apple carrot" => category = "fruits"
            /\ label = "corn flour" => category = "vegetables"
            /\ category = "other" <=> Normalized(label) = "chocolate"

\* "milk chicken" contains a dairy entry and a meat entry and equals neither:
\* it is dairy
C28_Witness ==
    /\ call.op = "category"
    /\ call.label = "milk chicken"
    /\ ExactHits(call.label) = {}
    /\ SubstringHits(call.label) = {"dairy", "meat"}
    /\ call.out.result = "dairy"

-----------------------------------------------------------------------------
(* Properties of SpecRecipes.                                              *)

\* the request looked the recipe up in TheMealDB: it was not cached
LookedUp == call.op = "get_recipe_details" /\ call.out.invoked = <<"themealdb">>

\* C29: a get_recipe_details request that finds no cached document and whose
\* lookup gives a recipe returns the recipe and leaves a document for its id
\* in db.recipes; one whose lookup gives nothing fails with 404 and leaves no
\* document for the id.  (Violated: the first kind of request raises
\* UnboundLocalError and inserts nothing.)
C29_CachesOnMiss ==
    /\ (LookedUp /\ call.lookup = "found") =>
           /\ call.out.status = "returned"
           /\ find_recipe(db.recipes, call.recipe_id) # NoDocument
    /\ (LookedUp /\ call.lookup = "none") =>
           /\ call.out.status = "raised"
           /\ call.out.exc = HTTPException(404, "Recipe not found")
           /\ find_recipe(db.recipes, call.recipe_id) = NoDocument

-----------------------------------------------------------------------------
(* Properties of SpecScan.                                                 *)

\* the documents the request added to db.fridge_items
StoredByRequest ==
    SubSeq(db.fridge_items, Len(call.fridge_before) + 1, Len(db.fridge_items))

\* the grouped detections of the primary model in the request
Model1Items == SlotResult(primary_model, call.pOut, primary_class_names)

\* C30: a scan request that returns has appended to db.fridge_items exactly
\* one document per grouped detection of model1, in order and with its name,
\* category, quantity and confidence, and none for model2; the returned
\* items are those documents and total_detected their number.  A request
\* whose detection raises DetectionModelNotReady is answered 503 and stores
\* nothing.
C30_ScanStoresModel1Only ==
    call.op = "scan_fridge" =>
        /\ Len(db.fridge_items) >= Len(call.fridge_before)
        /\ SubSeq(db.fridge_items, 1, Len(call.fridge_before)) = call.fridge_before
        /\ call.out.status = "returned" =>
               /\ Len(StoredByRequest) = Len(Model1Items)
               /\ \A i \in 1..Len(StoredByRequest) :
                      /\ StoredByRequest[i].name = Model1Items[i].name
                      /\ StoredByRequest[i].category = Model1Items[i].category
                      /\ StoredByRequest[i].quantity = Model1Items[i].quantity
                      /\ StoredByRequest[i].confidence_score = Model1Items[i].confidence
               /\ call.out.result.items = StoredByRequest
               /\ call.out.result.total_detected = Len(StoredByRequest)
        /\ call.out.status = "raised" =>
               /\ call.out.exc.kind = "HTTPException"
               /\ SubSeq(call.out.exc.msg, 1, 3) = "503"
               /\ StoredByRequest = <<>>

\* the primary found nothing and the secondary one item, on a fridge that
\* already held a document: nothing was stored, the item is shown as model2's
C30_Witness ==
    /\ call.op = "scan_fridge"
    /\ call.out.status = "returned"
    /\ PrimaryBound /\ SecondaryBound
    /\ call.fridge_before = <<SeedItem>>
    /\ Model1Items = <<>>
    /\ Len(call.out.model2) = 1
    /\ db.fridge_items = <<SeedItem>>
    /\ call.out.result.total_detected = 0

====
